---- MODULE Spec2Model ----
(***************************************************************************)
(* SafeEdit: the apply pipeline of safeedit/src/main.rs (handle_replace,   *)
(* handle_block, handle_rename, handle_normalize, handle_apply,            *)
(* handle_write, handle_cleanup, handle_batch) together with the text      *)
(* transforms of commands.rs / normalize.rs it calls and the write path    *)
(* apply_transform / create_backup_if_needed / write_via_temp.             *)
(*                                                                         *)
(* Text is a sequence of one-character strings; a file's bytes are the     *)
(* encoding of that text.  Offsets are 0-based as in the Rust code; Seq    *)
(* indices are offset + 1.                                                 *)
(***************************************************************************)
EXTENDS Integers, Sequences, FiniteSets, TLC

\* ------------------------------------------------------------------ bounds
\* Largest number of resolved targets / patch work items of one command.
MaxEntries == 2
\* Largest number of steps of a batch plan.
MaxSteps == 2

\* ------------------------------------------------------------- text helpers
\* Option<T>: NoneV, or Some(v)
NoneV == [some |-> FALSE]
Some(v) == [some |-> TRUE, v |-> v]

\* Result<T>: Ok(v), or Err(kind)
Ok(v) == [ok |-> TRUE, value |-> v]
Err(e) == [ok |-> FALSE, error |-> e]

NL == "\n"
CR == "\r"
SP == " "
TAB == "\t"
NUL == "NUL"
ZWSP == "ZWSP"

Min(a, b) == IF a < b THEN a ELSE b

\* text[from..to) with 0-based offsets, as Rust's &text[from..to]
Slice(text, from, to) == SubSeq(text, from + 1, to)

StartsWith(text, prefix) ==
    /\ Len(prefix) <= Len(text)
    /\ SubSeq(text, 1, Len(prefix)) = prefix

EndsWith(text, suffix) ==
    /\ Len(suffix) <= Len(text)
    /\ SubSeq(text, Len(text) - Len(suffix) + 1, Len(text)) = suffix

\* needle occurs in text at 0-based offset off
OccursAt(text, needle, off) ==
    /\ off + Len(needle) <= Len(text)
    /\ Slice(text, off, off + Len(needle)) = needle

\* str::find restricted to offsets >= from: the first occurrence, or -1
FindFrom(text, needle, from) ==
    LET hits == {off \in from..Len(text) : OccursAt(text, needle, off)}
    IN IF hits = {} THEN -1 ELSE CHOOSE off \in hits : \A o \in hits : off <= o

\* str::rfind: the last occurrence, or -1
RFind(text, needle) ==
    LET hits == {off \in 0..Len(text) : OccursAt(text, needle, off)}
    IN IF hits = {} THEN -1 ELSE CHOOSE off \in hits : \A o \in hits : off >= o

Contains(text, needle) == FindFrom(text, needle, 0) # -1

RECURSIVE Concat(_)
Concat(parts) == IF parts = <<>> THEN <<>> ELSE Head(parts) \o Concat(Tail(parts))

\* str::replace of the one-character needle `ch` by the text `by`
RECURSIVE ReplaceChar(_, _, _)
ReplaceChar(text, ch, by) ==
    IF text = <<>> THEN <<>>
    ELSE (IF Head(text) = ch THEN by ELSE <<Head(text)>>)
         \o ReplaceChar(Tail(text), ch, by)

\* char classes of the modelled alphabet
UpperLetters == {"X", "Y", "Z", "A", "B", "F", "O", "R"}
LowerLetters == {"x", "y", "z", "a", "b", "f", "o", "r"}
IsUppercase(c) == c \in UpperLetters
IsLowercase(c) == c \in LowerLetters
IsAlphabetic(c) == IsUppercase(c) \/ IsLowercase(c)
IsWordChar(c) == IsAlphabetic(c) \/ c = "_"
IsWhitespace(c) == c \in {SP, TAB, NL, CR}

ToUpperChar(c) ==
    CASE c = "x" -> "X" [] c = "y" -> "Y" [] c = "z" -> "Z"
      [] c = "a" -> "A" [] c = "b" -> "B" [] c = "f" -> "F"
      [] c = "o" -> "O" [] c = "r" -> "R" [] OTHER -> c
ToLowerChar(c) ==
    CASE c = "X" -> "x" [] c = "Y" -> "y" [] c = "Z" -> "z"
      [] c = "A" -> "a" [] c = "B" -> "b" [] c = "F" -> "f"
      [] c = "O" -> "o" [] c = "R" -> "r" [] OTHER -> c
ToUppercase(text) == [i \in 1..Len(text) |-> ToUpperChar(text[i])]
ToLowercase(text) == [i \in 1..Len(text) |-> ToLowerChar(text[i])]

\* ------------------------------------------------------ commands.rs: replace
\* LineIndex::new: the offsets that start a line
LineStarts(text) == {0} \cup {j \in 1..Len(text) : text[j] = NL}

\* a line_at that numbers the lines from 2
LineAtFromTwo(text, offset) ==
    Cardinality({s \in LineStarts(text) : s <= offset}) + 1

\* LineIndex::line_at: binary search of `offset` among the line starts;
\* found at pos -> pos + 1, insertion point pos -> pos.
LineAt(text, offset) == Cardinality({s \in LineStarts(text) : s <= offset})

\* regex.captures_iter for a literal (regex::escape'd) non-empty pattern:
\* the leftmost non-overlapping occurrences, in order of their start offset.
RECURSIVE MatchesFrom(_, _, _)
MatchesFrom(text, pattern, from) ==
    LET off == FindFrom(text, pattern, from)
    IN IF off = -1 THEN <<>>
       ELSE <<off>> \o MatchesFrom(text, pattern, off + Len(pattern))

Matches(text, pattern) == MatchesFrom(text, pattern, 0)

\* The loop of apply_replace over the matches, carrying output, last_end,
\* replacements and filtered_by_line.
RECURSIVE ReplaceLoop(_, _, _, _)
ReplaceLoop(text, options, ms, acc) ==
    IF ms = <<>> THEN acc
    ELSE LET start == Head(ms)
             eligible == IF options.after_line.some
                            THEN LineAt(text, start) > options.after_line.v
                            ELSE TRUE
         IN IF ~eligible
               THEN ReplaceLoop(text, options, Tail(ms),
                                [acc EXCEPT !.filtered_by_line = @ + 1])
            ELSE IF options.count.some /\ acc.replacements >= options.count.v
               THEN acc
            ELSE ReplaceLoop(text, options, Tail(ms),
                    [acc EXCEPT
                       !.output = @ \o Slice(text, acc.last_end, start)
                                    \o options.replacement,
                       !.last_end = start + Len(options.pattern),
                       !.replacements = @ + 1])

\* an apply_replace that compares expect with every match found, the ones
\* filtered by after_line included
apply_replace_expecting_all(text, options) ==
    LET acc == ReplaceLoop(text, options, Matches(text, options.pattern),
                   [output |-> <<>>, last_end |-> 0, replacements |-> 0,
                    filtered_by_line |-> 0])
        output == acc.output \o Slice(text, acc.last_end, Len(text))
    IN IF acc.replacements = 0 THEN Ok(NoneV)
       ELSE IF /\ options.expect.some
               /\ acc.replacements + acc.filtered_by_line # options.expect.v
          THEN Err("CountMismatch")
       ELSE Ok(Some(output))

\* apply_replace: Ok(NoneV) for "no change", Ok(Some(text)) for a result,
\* Err for a count mismatch.  Literal mode: the replacement is not expanded.
apply_replace(text, options) ==
    LET acc == ReplaceLoop(text, options, Matches(text, options.pattern),
                   [output |-> <<>>, last_end |-> 0, replacements |-> 0,
                    filtered_by_line |-> 0])
        output == acc.output \o Slice(text, acc.last_end, Len(text))
    IN IF acc.replacements = 0 THEN Ok(NoneV)
       ELSE IF options.expect.some /\ acc.replacements # options.expect.v
          THEN Err("CountMismatch")
       ELSE Ok(Some(output))

\* ------------------------------------------------------- commands.rs: rename
detect_case_kind(text) ==
    LET alphas == {i \in 1..Len(text) : IsAlphabetic(text[i])}
        all_upper == \A i \in alphas : IsUppercase(text[i])
        all_lower == \A i \in alphas : IsLowercase(text[i])
    IN IF alphas = {} THEN "Mixed"
       ELSE IF all_upper THEN "Upper"
       ELSE IF all_lower THEN "Lower"
       ELSE IF /\ Len(text) > 0
               /\ IsUppercase(text[1])
               /\ \A i \in 2..Len(text) : ~IsUppercase(text[i])
          THEN "Capitalized"
       ELSE "Mixed"

\* a capitalize that leaves the characters after the first as they are
capitalize_first_only(value) ==
    [i \in 1..Len(value) |->
        IF i = 1 THEN ToUpperChar(value[i]) ELSE value[i]]

capitalize(value) ==
    [i \in 1..Len(value) |->
        IF i = 1 THEN ToUpperChar(value[i]) ELSE ToLowerChar(value[i])]

adjust_case(source, target) ==
    LET kind == detect_case_kind(source)
    IN CASE kind = "Upper" -> ToUppercase(target)
         [] kind = "Lower" -> ToLowercase(target)
         [] kind = "Capitalized" -> capitalize(target)
         [] OTHER -> target

\* \b at offset off: exactly one side of the position is a word character
WordBoundaryAt(text, off) ==
    LET before == off > 0 /\ IsWordChar(text[off])
        after == off < Len(text) /\ IsWordChar(text[off + 1])
    IN before # after

\* the regex built by apply_rename matches at offset off
RenameMatchAt(text, options, off) ==
    LET n == Len(options.from)
        piece == Slice(text, off, off + n)
    IN /\ off + n <= Len(text)
       /\ IF options.case_aware
             THEN ToLowercase(piece) = ToLowercase(options.from)
             ELSE piece = options.from
       /\ options.word_boundary =>
             WordBoundaryAt(text, off) /\ WordBoundaryAt(text, off + n)

RECURSIVE RenameMatchesFrom(_, _, _)
RenameMatchesFrom(text, options, from) ==
    LET hits == {off \in from..Len(text) : RenameMatchAt(text, options, off)}
        off == CHOOSE o \in hits : \A h \in hits : o <= h
    IN IF hits = {} THEN <<>>
       ELSE <<off>> \o RenameMatchesFrom(text, options, off + Len(options.from))

\* regex.replace_all with the case-adjusting closure
RECURSIVE RenameReplaceAll(_, _, _, _)
RenameReplaceAll(text, options, ms, last_end) ==
    IF ms = <<>> THEN Slice(text, last_end, Len(text))
    ELSE LET start == Head(ms)
             stop == start + Len(options.from)
             rep == IF options.case_aware
                       THEN adjust_case(Slice(text, start, stop), options.to)
                       ELSE options.to
         IN Slice(text, last_end, start) \o rep
            \o RenameReplaceAll(text, options, Tail(ms), stop)

apply_rename(text, options) ==
    LET ms == RenameMatchesFrom(text, options, 0)
    IN IF Len(ms) = 0 THEN Ok(NoneV)
       ELSE Ok(Some(RenameReplaceAll(text, options, ms, 0)))

\* -------------------------------------------------------- commands.rs: block
preferred_line_ending(block, doc) ==
    IF Contains(block, <<CR, NL>>) \/ Contains(doc, <<CR, NL>>)
       THEN <<CR, NL>> ELSE <<NL>>

has_leading_linebreak(text) ==
    StartsWith(text, <<CR, NL>>) \/ StartsWith(text, <<NL>>)

\* a region never taken to end with a line break
has_trailing_linebreak_never(text) == FALSE

has_trailing_linebreak(text) ==
    \/ EndsWith(text, <<CR, NL>>)
    \/ (EndsWith(text, <<NL>>) /\ ~EndsWith(text, <<CR, NL>>))

\* "\r\n" and a lone "\r" both become `newline`
RECURSIVE normalize_line_endings_to(_, _)
normalize_line_endings_to(input, newline) ==
    IF input = <<>> THEN <<>>
    ELSE IF Head(input) = CR
        THEN newline \o normalize_line_endings_to(
                 IF Len(input) > 1 /\ input[2] = NL
                    THEN Tail(Tail(input)) ELSE Tail(input), newline)
    ELSE IF Head(input) = NL
        THEN newline \o normalize_line_endings_to(Tail(input), newline)
    ELSE <<Head(input)>> \o normalize_line_endings_to(Tail(input), newline)

restore_line_endings(text, newline) ==
    IF newline = <<NL>> THEN text ELSE ReplaceChar(text, NL, newline)

needs_indent(line, indent) ==
    IF indent = <<>> THEN FALSE
    ELSE IF line = <<>> THEN FALSE
    ELSE ~(line[1] \in {SP, TAB})

\* the longest prefix of spaces and tabs
RECURSIVE TakeIndent(_)
TakeIndent(text) ==
    IF text # <<>> /\ Head(text) \in {SP, TAB}
       THEN <<Head(text)>> \o TakeIndent(Tail(text)) ELSE <<>>

block_indent(text, marker_start) ==
    LET nl == RFind(Slice(text, 0, marker_start), <<NL>>)
        line_start == IF nl = -1 THEN 0 ELSE nl + 1
    IN TakeIndent(Slice(text, line_start, marker_start))

extract_trailing_indent(existing) ==
    LET pos == RFind(existing, <<NL>>)
        tail == Slice(existing, pos + 1, Len(existing))
    IN IF pos # -1 /\ tail # <<>> /\ \A i \in 1..Len(tail) : tail[i] \in {SP, TAB}
          THEN tail ELSE <<>>

\* str::split_inclusive('\n'): pieces that each end with their '\n'
RECURSIVE SplitInclusive(_, _)
SplitInclusive(text, piece) ==
    IF text = <<>> THEN (IF piece = <<>> THEN <<>> ELSE <<piece>>)
    ELSE IF Head(text) = NL
        THEN <<piece \o <<NL>>>> \o SplitInclusive(Tail(text), <<>>)
    ELSE SplitInclusive(Tail(text), piece \o <<Head(text)>>)

RECURSIVE IndentChunks(_, _)
IndentChunks(chunks, indent) ==
    IF chunks = <<>> THEN <<>>
    ELSE LET segment == Head(chunks)
             has_newline == EndsWith(segment, <<NL>>)
             line == IF has_newline
                        THEN SubSeq(segment, 1, Len(segment) - 1) ELSE segment
         IN (IF needs_indent(line, indent) THEN indent ELSE <<>>)
            \o line \o (IF has_newline THEN <<NL>> ELSE <<>>)
            \o IndentChunks(Tail(chunks), indent)

adjust_block_body(existing, requested, full_text, indent) ==
    LET newline == preferred_line_ending(existing, full_text)
        body0 == normalize_line_endings_to(requested, <<NL>>)
        body1 == IF has_leading_linebreak(existing) /\ ~StartsWith(body0, <<NL>>)
                    THEN <<NL>> \o body0 ELSE body0
        body == IF has_trailing_linebreak(existing) /\ ~EndsWith(body1, <<NL>>)
                   THEN body1 \o <<NL>> ELSE body1
        trailing_indent == extract_trailing_indent(existing)
        split == SplitInclusive(body, <<>>)
        chunks == IF split = <<>> THEN <<body>> ELSE split
        rebuilt0 == IndentChunks(chunks, indent)
        rebuilt == IF trailing_indent # <<>>
                      /\ ~EndsWith(rebuilt0, <<NL>> \o trailing_indent)
                      THEN (IF EndsWith(rebuilt0, <<NL>>)
                               THEN rebuilt0 ELSE rebuilt0 \o <<NL>>)
                           \o trailing_indent
                      ELSE rebuilt0
    IN restore_line_endings(rebuilt, newline)

\* a trim that leaves nothing of any text
TrimIsEmptyAlways(text) == TRUE

\* str::trim().is_empty()
TrimIsEmpty(text) == \A i \in 1..Len(text) : IsWhitespace(text[i])

\* an apply_block that takes the requested body as it is for the new region
apply_block_unadjusted(text, options) ==
    LET start_pos == FindFrom(text, options.start_marker, 0)
        after_start == start_pos + Len(options.start_marker)
        end_pos == FindFrom(text, options.end_marker, after_start)
        existing == Slice(text, after_start, end_pos)
        new_text == Slice(text, 0, after_start) \o options.body
                    \o Slice(text, end_pos, Len(text))
    IN IF start_pos = -1 THEN Err("MarkerNotFound")
       ELSE IF end_pos = -1 THEN Err("MarkerNotFound")
       ELSE IF options.mode = "Insert" /\ ~TrimIsEmpty(existing)
          THEN Err("RegionNotEmpty")
       ELSE IF existing = options.body THEN Ok(NoneV)
       ELSE Ok(Some(new_text))

\* an apply_block that rebuilds the text from the start of the start marker
apply_block_over_marker(text, options) ==
    LET start_pos == FindFrom(text, options.start_marker, 0)
        after_start == start_pos + Len(options.start_marker)
        end_pos == FindFrom(text, options.end_marker, after_start)
        existing == Slice(text, after_start, end_pos)
        indent == block_indent(text, start_pos)
        desired == adjust_block_body(existing, options.body, text, indent)
        new_text == Slice(text, 0, start_pos) \o desired
                    \o Slice(text, end_pos, Len(text))
    IN IF start_pos = -1 THEN Err("MarkerNotFound")
       ELSE IF end_pos = -1 THEN Err("MarkerNotFound")
       ELSE IF options.mode = "Insert" /\ ~TrimIsEmpty(existing)
          THEN Err("RegionNotEmpty")
       ELSE IF existing = desired THEN Ok(NoneV)
       ELSE IF new_text = text THEN Ok(NoneV)
       ELSE Ok(Some(new_text))

apply_block(text, options) ==
    LET start_pos == FindFrom(text, options.start_marker, 0)
        after_start == start_pos + Len(options.start_marker)
        end_pos == FindFrom(text, options.end_marker, after_start)
        existing == Slice(text, after_start, end_pos)
        indent == block_indent(text, start_pos)
        desired == adjust_block_body(existing, options.body, text, indent)
        new_text == Slice(text, 0, after_start) \o desired
                    \o Slice(text, end_pos, Len(text))
    IN IF start_pos = -1 THEN Err("MarkerNotFound")
       ELSE IF end_pos = -1 THEN Err("MarkerNotFound")
       ELSE IF options.mode = "Insert" /\ ~TrimIsEmpty(existing)
          THEN Err("RegionNotEmpty")
       ELSE IF existing = desired THEN Ok(NoneV)
       ELSE IF new_text = text THEN Ok(NoneV)
       ELSE Ok(Some(new_text))

\* -------------------------------------------------------------- normalize.rs
is_zero_width_char(ch) == ch = ZWSP

is_control_char(ch) == ch = NUL

\* the longest suffix of spaces and tabs
RECURSIVE count_trailing_ws(_)
count_trailing_ws(line) ==
    IF line # <<>> /\ line[Len(line)] \in {SP, TAB}
       THEN 1 + count_trailing_ws(SubSeq(line, 1, Len(line) - 1)) ELSE 0

\* flush_line on the accumulator [cleaned, line_buffer, changed]
flush_line(acc, opts, append_newline) ==
    LET had_cr == EndsWith(acc.line_buffer, <<CR>>)
        line0 == IF had_cr
                    THEN SubSeq(acc.line_buffer, 1, Len(acc.line_buffer) - 1)
                    ELSE acc.line_buffer
        trailing == IF opts.detect_trailing_space \/ opts.trim_trailing_space
                       THEN count_trailing_ws(line0) ELSE 0
        trim == opts.trim_trailing_space /\ trailing > 0
        line1 == IF trim THEN SubSeq(line0, 1, Len(line0) - trailing) ELSE line0
        line == IF had_cr THEN line1 \o <<CR>> ELSE line1
    IN [cleaned |-> IF line # <<>> \/ append_newline
                       THEN acc.cleaned \o line
                            \o (IF append_newline THEN <<NL>> ELSE <<>>)
                       ELSE acc.cleaned,
        line_buffer |-> <<>>,
        changed |-> acc.changed \/ trim]

RECURSIVE NormalizeLoop(_, _, _)
NormalizeLoop(text, opts, acc) ==
    IF text = <<>> THEN acc
    ELSE LET ch == Head(text)
         IN IF ch = NL
               THEN NormalizeLoop(Tail(text), opts, flush_line(acc, opts, TRUE))
            ELSE IF is_zero_width_char(ch) /\ opts.strip_zero_width
               THEN NormalizeLoop(Tail(text), opts, [acc EXCEPT !.changed = TRUE])
            ELSE IF is_control_char(ch) /\ opts.strip_control
               THEN NormalizeLoop(Tail(text), opts, [acc EXCEPT !.changed = TRUE])
            ELSE NormalizeLoop(Tail(text), opts,
                               [acc EXCEPT !.line_buffer = @ \o <<ch>>])

\* normalize_text(..).cleaned
normalize_text(text, opts) ==
    LET acc0 == NormalizeLoop(text, opts,
                    [cleaned |-> <<>>, line_buffer |-> <<>>, changed |-> FALSE])
        acc1 == flush_line(acc0, opts, FALSE)
        eol == opts.ensure_eol /\ ~EndsWith(acc1.cleaned, <<NL>>)
        cleaned == IF eol THEN acc1.cleaned \o <<NL>> ELSE acc1.cleaned
        changed == acc1.changed \/ eol
    IN IF changed \/ cleaned # text THEN Some(cleaned) ELSE NoneV

\* ---------------------------------------------------- main.rs: line endings
detect_line_ending_style(text) ==
    IF Contains(text, <<CR, NL>>) THEN "Crlf"
    ELSE IF Contains(text, <<CR>>) THEN "Cr"
    ELSE "Lf"

normalize_to_lf(text) ==
    IF ~Contains(text, <<CR>>) THEN text
    ELSE normalize_line_endings_to(text, <<NL>>)

restore_from_lf(text, style) ==
    CASE style = "Lf" -> text
      [] style = "Crlf" -> ReplaceChar(text, NL, <<CR, NL>>)
      [] style = "Cr" -> ReplaceChar(text, NL, <<CR>>)

\* diffy::apply for a patch whose single hunk spans the whole file: the
\* hunk's old side must match the base text exactly (no fuzzy search).
diffy_apply(base, patch) ==
    IF base = patch.old THEN Ok(patch.new) ELSE Err("HunkMismatch")

apply_patch_preserving_newlines(text, parsed_patch) ==
    LET style == detect_line_ending_style(text)
        normalized == normalize_to_lf(text)
        patched == diffy_apply(normalized, parsed_patch)
    IN IF patched.ok THEN Ok(restore_from_lf(patched.value, style)) ELSE patched

\* ------------------------------------------------------------------ patch.rs
\* str::trim_start_matches / trim_end_matches for a set of characters
RECURSIVE TrimStartChars(_, _)
TrimStartChars(text, chars) ==
    IF text # <<>> /\ Head(text) \in chars
       THEN TrimStartChars(Tail(text), chars) ELSE text

RECURSIVE TrimEndChars(_, _)
TrimEndChars(text, chars) ==
    IF text # <<>> /\ text[Len(text)] \in chars
       THEN TrimEndChars(SubSeq(text, 1, Len(text) - 1), chars) ELSE text

\* str::trim
Trim(text) ==
    TrimEndChars(TrimStartChars(text, {SP, TAB, NL, CR}), {SP, TAB, NL, CR})

\* str::trim_start_matches for a text prefix
RECURSIVE TrimStartMatches(_, _)
TrimStartMatches(text, prefix) ==
    IF StartsWith(text, prefix)
       THEN TrimStartMatches(SubSeq(text, Len(prefix) + 1, Len(text)), prefix)
       ELSE text

\* str::strip_prefix: the rest, when the text starts with the prefix
StripPrefix(text, prefix) ==
    IF StartsWith(text, prefix)
       THEN Some(SubSeq(text, Len(prefix) + 1, Len(text))) ELSE NoneV

DevNull == <<"/", "d", "e", "v", "/", "n", "u", "l", "l">>

\* a label_to_path that strips neither quotes nor prefixes
label_to_path_unstripped(label) ==
    IF Trim(label) = DevNull \/ Trim(label) = <<>> THEN NoneV
    ELSE Some(Trim(label))

label_to_path(label) ==
    LET trimmed == Trim(label)
        unquoted == TrimEndChars(TrimStartChars(trimmed, {"\""}), {"\""})
        stripped == IF StripPrefix(unquoted, <<"a", "/">>).some
                       THEN StripPrefix(unquoted, <<"a", "/">>).v
                    ELSE IF StripPrefix(unquoted, <<"b", "/">>).some
                       THEN StripPrefix(unquoted, <<"b", "/">>).v
                    ELSE unquoted
        cleaned == TrimStartMatches(stripped, <<".", "/">>)
    IN IF trimmed = DevNull THEN NoneV
       ELSE IF cleaned = <<>> THEN NoneV
       ELSE Some(cleaned)

\* the pieces of text between the occurrences of the character sep
RECURSIVE SplitOn(_, _, _)
SplitOn(text, sep, piece) ==
    IF text = <<>> THEN <<piece>>
    ELSE IF Head(text) = sep
        THEN <<piece>> \o SplitOn(Tail(text), sep, <<>>)
    ELSE SplitOn(Tail(text), sep, piece \o <<Head(text)>>)

\* Path::components: PathBuf's equality compares the components, so a
\* repeated or trailing separator and a "." that is not the first component
\* make no difference.
PathComponents(path) ==
    LET parts == SplitOn(path, "/", <<>>)
    IN [root |-> StartsWith(path, <<"/">>),
        names |-> (IF parts[1] = <<>> THEN <<>> ELSE <<parts[1]>>)
                  \o SelectSeq(Tail(parts),
                               LAMBDA p : p # <<>> /\ p # <<".">>)]

\* the classification of two paths that are both present
classify_present(old, new) ==
    IF PathComponents(old) = PathComponents(new) THEN "Modify" ELSE "Rename"

classify_paths(old_label, new_label) ==
    LET old_path == label_to_path(old_label)
        new_path == label_to_path(new_label)
        kind == IF old_path.some /\ new_path.some
                   THEN classify_present(old_path.v, new_path.v)
                ELSE IF new_path.some THEN "Create"
                ELSE "Delete"
    IN IF ~old_path.some /\ ~new_path.some THEN Err("MissingLabels")
       ELSE Ok([kind |-> kind, old_path |-> old_path, new_path |-> new_path])

\* finalize_segment: the segment is pushed when both labels are there
finalize_segment(st) ==
    IF ~st.old_label.some \/ ~st.new_label.some
       THEN [st EXCEPT !.failed = TRUE]
       ELSE [st EXCEPT
               !.segments = Append(@, [old_label |-> st.old_label.v,
                                       new_label |-> st.new_label.v,
                                       body |-> st.buffer]),
               !.buffer = <<>>, !.old_label = NoneV, !.new_label = NoneV]

DiffPrefix == <<"d", "i", "f", "f", SP, "-", "-">>
OldPrefix == <<"-", "-", "-", SP>>
NewPrefix == <<"+", "+", "+", SP>>

\* split_segments: one iteration of the loop over the chunks of
\* text.split_inclusive('\n')
SegmentChunk(st, chunk) ==
    LET cleaned == ReplaceChar(chunk, CR, <<>>)
        trimmed == TrimEndChars(cleaned, {NL})
        closed == IF st.in_segment THEN finalize_segment(st) ELSE st
    IN IF StartsWith(trimmed, DiffPrefix)
          THEN (IF st.in_segment
                   THEN [closed EXCEPT !.buffer = <<>>, !.old_label = NoneV,
                                       !.new_label = NoneV,
                                       !.in_segment = FALSE]
                   ELSE st)
       ELSE IF StripPrefix(trimmed, OldPrefix).some
          THEN [closed EXCEPT
                  !.buffer = cleaned,
                  !.old_label = Some(Trim(StripPrefix(trimmed, OldPrefix).v)),
                  !.new_label = NoneV,
                  !.in_segment = TRUE]
       ELSE IF ~st.in_segment THEN st
       ELSE IF ~st.new_label.some /\ StripPrefix(trimmed, NewPrefix).some
          THEN [st EXCEPT
                  !.new_label = Some(Trim(StripPrefix(trimmed, NewPrefix).v)),
                  !.buffer = @ \o cleaned]
       ELSE [st EXCEPT !.buffer = @ \o cleaned]

RECURSIVE SegmentLoop(_, _)
SegmentLoop(st, chunks) ==
    IF chunks = <<>> \/ st.failed THEN st
    ELSE SegmentLoop(SegmentChunk(st, Head(chunks)), Tail(chunks))

\* the segments once the last one is closed, or the error
SegmentsOf(st) ==
    IF st.failed THEN Err("MissingHeader") ELSE Ok(st.segments)

\* the end of split_segments: the segment still open is closed
CloseLast(st) ==
    IF ~st.failed /\ st.in_segment THEN finalize_segment(st) ELSE st

split_segments(text) ==
    SegmentsOf(CloseLast(
        SegmentLoop([segments |-> <<>>, buffer |-> <<>>, old_label |-> NoneV,
                     new_label |-> NoneV, in_segment |-> FALSE,
                     failed |-> FALSE],
                    SplitInclusive(text, <<>>))))

\* ------------------------------------------------------------- encoding.rs
\* Bytes are numbers.  The characters of the model and their code points:
Alphabet == {NUL, TAB, NL, CR, SP, "<", ">", "_", "X", "Y", "Z", "x", "y", "z",
             ZWSP, "REPLACEMENT"}

CodePoint(c) ==
    CASE c = NUL -> 0 [] c = TAB -> 9 [] c = NL -> 10 [] c = CR -> 13
      [] c = SP -> 32 [] c = "<" -> 60 [] c = ">" -> 62 [] c = "_" -> 95
      [] c = "X" -> 88 [] c = "Y" -> 89 [] c = "Z" -> 90
      [] c = "x" -> 120 [] c = "y" -> 121 [] c = "z" -> 122
      [] c = ZWSP -> 8203 [] c = "REPLACEMENT" -> 65533

\* UTF-8 bytes of one character (code points below 0x80 take one byte,
\* those in 0x0800..0xFFFF three)
Utf8Char(c) ==
    LET cp == CodePoint(c)
    IN IF cp < 128 THEN <<cp>>
       ELSE <<224 + (cp \div 4096), 128 + ((cp \div 64) % 64), 128 + (cp % 64)>>

RECURSIVE Utf8Encode(_)
Utf8Encode(text) ==
    IF text = <<>> THEN <<>> ELSE Utf8Char(Head(text)) \o Utf8Encode(Tail(text))

\* lossy UTF-8 decoding: [text, had_errors]; a byte that starts no known
\* sequence becomes U+FFFD
RECURSIVE Utf8Decode(_)
Utf8Decode(bytes) ==
    IF bytes = <<>> THEN [text |-> <<>>, had_errors |-> FALSE]
    ELSE LET ones == {c \in Alphabet : Utf8Char(c) = <<Head(bytes)>>}
             threes == {c \in Alphabet :
                          Len(bytes) >= 3 /\ Utf8Char(c) = SubSeq(bytes, 1, 3)}
         IN IF ones # {}
               THEN LET rest == Utf8Decode(Tail(bytes))
                    IN [rest EXCEPT !.text = <<CHOOSE c \in ones : TRUE>> \o @]
            ELSE IF threes # {}
               THEN LET rest == Utf8Decode(SubSeq(bytes, 4, Len(bytes)))
                    IN [rest EXCEPT !.text = <<CHOOSE c \in threes : TRUE>> \o @]
            ELSE LET rest == Utf8Decode(Tail(bytes))
                 IN [text |-> <<"REPLACEMENT">> \o rest.text, had_errors |-> TRUE]

\* EncodingStrategy::decode without an override, on bytes without a BOM
\* that the detector takes as UTF-8: DecodedText{text, had_errors, decision}
Decode(bytes) ==
    LET d == Utf8Decode(bytes)
    IN [text |-> d.text, had_errors |-> d.had_errors, encoding |-> "UTF-8"]

\* Encoding::encode of encoding_rs: (bytes, had_errors).  windows-1252 has
\* no ZWSP or U+FFFD: they are written as numeric character references.
RECURSIVE Digits(_)
Digits(n) == IF n < 10 THEN <<48 + n>> ELSE Digits(n \div 10) \o <<48 + (n % 10)>>

RECURSIVE Encode1252(_)
Encode1252(text) ==
    IF text = <<>> THEN [bytes |-> <<>>, had_errors |-> FALSE]
    ELSE LET cp == CodePoint(Head(text))
             rest == Encode1252(Tail(text))
         IN IF cp < 128 THEN [rest EXCEPT !.bytes = <<cp>> \o @]
            ELSE [bytes |-> <<38, 35>> \o Digits(cp) \o <<59>> \o rest.bytes,
                  had_errors |-> TRUE]

Encode(text, encoding) ==
    IF encoding = "windows-1252" THEN Encode1252(text)
    ELSE [bytes |-> Utf8Encode(text), had_errors |-> FALSE]

\* std::str::from_utf8(bytes).is_ok(): bytes is well-formed UTF-8
RECURSIVE from_utf8_is_ok(_)
from_utf8_is_ok(bytes) ==
    IF bytes = <<>> THEN TRUE
    ELSE LET b == Head(bytes)
             n == IF b < 128 THEN 1
                  ELSE IF b \in 194..223 THEN 2
                  ELSE IF b \in 224..239 THEN 3
                  ELSE IF b \in 240..244 THEN 4
                  ELSE 0
             second == IF b = 224 THEN 160..191
                       ELSE IF b = 237 THEN 128..159
                       ELSE IF b = 240 THEN 144..191
                       ELSE IF b = 244 THEN 128..143
                       ELSE 128..191
         IN /\ n > 0
            /\ Len(bytes) >= n
            /\ n >= 2 => bytes[2] \in second
            /\ \A i \in 3..n : bytes[i] \in 128..191
            /\ from_utf8_is_ok(SubSeq(bytes, n + 1, Len(bytes)))

\* detect_bom finding no byte-order mark, whatever the bytes
detect_bom_never(bytes) == NoneV

detect_bom(bytes) ==
    IF StartsWith(bytes, <<239, 187, 191>>) THEN Some("UTF-8")
    ELSE IF StartsWith(bytes, <<255, 254>>) THEN Some("UTF-16LE")
    ELSE IF StartsWith(bytes, <<254, 255>>) THEN Some("UTF-16BE")
    ELSE NoneV

EncodingDecision(encoding, source) == [encoding |-> encoding, source |-> source]

\* detect_auto; guess is what chardetng's EncodingDetector::guess returns
detect_auto(bytes, guess) ==
    IF detect_bom(bytes).some
       THEN EncodingDecision(detect_bom(bytes).v, "Bom")
    ELSE IF from_utf8_is_ok(bytes)
       THEN EncodingDecision("UTF-8", "AssumedUtf8")
    ELSE EncodingDecision(guess, "Detector")

\* EncodingStrategy::decide, for a strategy with the field override_encoding
decide(override_encoding, bytes, guess) ==
    IF override_encoding.some
       THEN EncodingDecision(override_encoding.v, "Override")
    ELSE detect_auto(bytes, guess)

\* the character of a code point; every code point that is no character of
\* the model reads as "OTHER"
CharOf(cp) ==
    IF \E c \in Alphabet : CodePoint(c) = cp
       THEN CHOOSE c \in Alphabet : CodePoint(c) = cp
    ELSE "OTHER"

\* lossy UTF-16 decoding: [text, had_errors]; a surrogate code unit (none
\* of the model's bytes pair up to a valid pair) and a trailing odd byte
\* become U+FFFD
RECURSIVE Utf16Decode(_, _)
Utf16Decode(bytes, big_endian) ==
    IF bytes = <<>> THEN [text |-> <<>>, had_errors |-> FALSE]
    ELSE IF Len(bytes) = 1
       THEN [text |-> <<"REPLACEMENT">>, had_errors |-> TRUE]
    ELSE LET unit == IF big_endian THEN bytes[1] * 256 + bytes[2]
                     ELSE bytes[2] * 256 + bytes[1]
             rest == Utf16Decode(SubSeq(bytes, 3, Len(bytes)), big_endian)
         IN IF unit \in 55296..57343
               THEN [text |-> <<"REPLACEMENT">> \o rest.text,
                     had_errors |-> TRUE]
            ELSE [rest EXCEPT !.text = <<CharOf(unit)>> \o @]

\* windows-1252 decoding: every byte is a character
Decode1252(bytes) ==
    [text |-> [i \in DOMAIN bytes |->
                  IF bytes[i] < 128 THEN CharOf(bytes[i]) ELSE "OTHER"],
     had_errors |-> FALSE]

\* Encoding::decode_without_bom_handling of encoding_rs
DecodeWithoutBom(encoding, bytes) ==
    CASE encoding = "UTF-16LE" -> Utf16Decode(bytes, FALSE)
      [] encoding = "UTF-16BE" -> Utf16Decode(bytes, TRUE)
      [] encoding = "windows-1252" -> Decode1252(bytes)
      [] OTHER -> Utf8Decode(bytes)

\* Encoding::decode of encoding_rs, which sniffs for a byte-order mark: a
\* mark decides the encoding in place of the one asked for, and is removed
EncodingDecode(encoding, bytes) ==
    IF StartsWith(bytes, <<239, 187, 191>>)
       THEN DecodeWithoutBom("UTF-8", SubSeq(bytes, 4, Len(bytes)))
    ELSE IF StartsWith(bytes, <<255, 254>>)
       THEN DecodeWithoutBom("UTF-16LE", SubSeq(bytes, 3, Len(bytes)))
    ELSE IF StartsWith(bytes, <<254, 255>>)
       THEN DecodeWithoutBom("UTF-16BE", SubSeq(bytes, 3, Len(bytes)))
    ELSE DecodeWithoutBom(encoding, bytes)

\* EncodingStrategy::decode
strategy_decode(override_encoding, bytes, guess) ==
    LET decision == decide(override_encoding, bytes, guess)
        decoded == EncodingDecode(decision.encoding, bytes)
    IN [text |-> decoded.text, had_errors |-> decoded.had_errors,
        decision |-> decision]

\* ===================================================================== disk
\* A path is <<directory, file name, kind, n>>: the file itself, its n-th
\* backup sidecar, or a temporary file of write_via_temp.
MaxBak == MaxSteps + 3

Dirs == {"d1", "d2"}
Bases == {"f1", "f2", "f3", "f4", "f5"}
DirOf(base) == IF base = "f2" THEN "d2" ELSE "d1"
Path(base) == <<DirOf(base), base, "file", 0>>

\* backup_candidate: <name>.bak for index 0, <name>.bak<index> otherwise,
\* next to the file
backup_candidate(path, index) == <<path[1], path[2], "bak", index>>

\* a write that goes to the destination itself
temp_path_in_place(path) == path

\* the temporary file of write_via_temp: .safeedit-tmp-<pid>-<nanos> in the
\* destination's parent directory
temp_path(path) == <<path[1], ".safeedit-tmp", "tmp", 0>>

Names ==
    {Path(b) : b \in Bases}
    \cup {backup_candidate(Path(b), i) : b \in Bases, i \in 0..MaxBak}
    \cup {<<d, ".safeedit-tmp", "tmp", 0>> : d \in Dirs}

NoFile == [exists |-> FALSE, bytes |-> <<>>]
File(bytes) == [exists |-> TRUE, bytes |-> bytes]

TextF1 == <<"<", "x", ">", NL>>
TextF2 == <<"<", "x", ">", SP>>
TextF3 == <<NUL, "x">>
TextBak == <<"z">>

\* The disk every command starts from: f1 with sidecars .bak and .bak1, f2
\* with a sidecar .bak1 only, the binary f3; f4 and f5 do not exist.
Disk0 ==
    [n \in Names |->
        CASE n = Path("f1") -> File(Utf8Encode(TextF1))
          [] n = Path("f2") -> File(Utf8Encode(TextF2))
          [] n = Path("f3") -> File(Utf8Encode(TextF3))
          [] n = backup_candidate(Path("f1"), 0) -> File(Utf8Encode(TextBak))
          [] n = backup_candidate(Path("f1"), 1) -> File(Utf8Encode(TextBak))
          [] n = backup_candidate(Path("f2"), 1) -> File(Utf8Encode(TextBak))
          [] OTHER -> NoFile]

\* files.rs
BINARY_CHECK_BYTES == 4096

detect_binary(bytes) ==
    \E i \in 1..Min(Len(bytes), BINARY_CHECK_BYTES) : bytes[i] = 0

\* resolve_targets for explicit targets that exist: one FileEntry per path,
\* sorted by path (the targets of the model are given in path order)
resolve_entries(disk, targets) ==
    [i \in 1..Len(targets) |->
        [path |-> targets[i],
         is_probably_binary |-> detect_binary(disk[targets[i]].bytes)]]

\* is_backup_file / find_backup_files: the sidecars under the root, sorted
is_backup_file(path) == path[3] = "bak"

BaseOrder(base) ==
    CASE base = "f1" -> 1 [] base = "f2" -> 2 [] base = "f3" -> 3
      [] base = "f4" -> 4 [] base = "f5" -> 5

find_backup_files(disk) ==
    LET found == {n \in Names : disk[n].exists /\ is_backup_file(n)}
        key(n) == BaseOrder(n[2]) * (MaxBak + 1) + n[4]
        RECURSIVE Sorted(_)
        Sorted(set) ==
            IF set = {} THEN <<>>
            ELSE LET first == CHOOSE a \in set : \A b \in set : key(a) <= key(b)
                 IN <<[path |-> first]>> \o Sorted(set \ {first})
    IN Sorted(found)

\* ================================================================= commands
\* CommonArgs: targets, --apply, --yes, --no-backup, --undo-log DIR
CommonArgs(targets, apply, auto_apply, no_backup, undo_log) ==
    [targets |-> targets, apply |-> apply, auto_apply |-> auto_apply,
     no_backup |-> no_backup, undo_log |-> undo_log]

RECURSIVE SubSeqs(_, _)
\* the subsequences of seq with at most max elements
SubSeqs(seq, max) ==
    IF seq = <<>> \/ max = 0 THEN {<<>>}
    ELSE LET rest == SubSeqs(Tail(seq), max)
             with == {<<Head(seq)>> \o r : r \in SubSeqs(Tail(seq), max - 1)}
         IN rest \cup with

TargetLists ==
    SubSeqs(<<Path("f1"), Path("f2"), Path("f3")>>, MaxEntries) \ {<<>>}

Commons(targetLists) ==
    {CommonArgs(t, a, y, nb, u) :
        t \in targetLists, a \in BOOLEAN, y \in BOOLEAN, nb \in BOOLEAN,
        u \in {NoneV, Some("undo")}}

ReplaceOptions(pattern, replacement, expect) ==
    [pattern |-> pattern, replacement |-> replacement, after_line |-> NoneV,
     count |-> NoneV, expect |-> expect]

ReplaceCommands ==
    {[kind |-> "replace", common |-> c, diff_only |-> d, options |-> o] :
        c \in Commons(TargetLists), d \in BOOLEAN,
        o \in {ReplaceOptions(<<"x">>, <<"y">>, NoneV),
               ReplaceOptions(<<"x">>, <<"x">>, NoneV),
               ReplaceOptions(<<"y">>, <<"z">>, NoneV),
               ReplaceOptions(<<"x">>, <<"y">>, Some(2))}}

BlockOptions(mode, body) ==
    [start_marker |-> <<"<">>, end_marker |-> <<">">>, mode |-> mode,
     body |-> body]

BlockCommands ==
    {[kind |-> "block", common |-> c, options |-> o] :
        c \in Commons(TargetLists),
        o \in {BlockOptions("Replace", <<"y">>), BlockOptions("Replace", <<"x">>),
               BlockOptions("Insert", <<"y">>)}}

RenameOptions(from, to, strict) ==
    [from |-> from, to |-> to, word_boundary |-> strict, case_aware |-> strict]

RenameCommands ==
    {[kind |-> "rename", common |-> c, options |-> o] :
        c \in Commons(TargetLists),
        o \in {RenameOptions(<<"x">>, <<"y">>, FALSE),
               RenameOptions(<<"x">>, <<"x">>, FALSE),
               RenameOptions(<<"y">>, <<"z">>, TRUE)}}

NormalizeOptions(trim) ==
    [strip_zero_width |-> FALSE, strip_control |-> FALSE,
     trim_trailing_space |-> trim, ensure_eol |-> FALSE,
     detect_trailing_space |-> FALSE]

NormalizeCommands ==
    {[kind |-> "normalize", common |-> c, options |-> NormalizeOptions(TRUE),
      convert_encoding |-> e] :
        c \in Commons(TargetLists), e \in {NoneV, Some("windows-1252")}}

\* handle_apply: the work items collect_patch_work builds from the patch
\* files.  A patch is its hunk's two sides [old, new] (LF text).
PatchWork(kind, old_path, new_path, old, new) ==
    [kind |-> kind, old_path |-> old_path, new_path |-> new_path,
     patch |-> [old |-> old, new |-> new]]

PatchCatalogue ==
    << PatchWork("Modify", Some(Path("f2")), Some(Path("f2")), TextF2, TextF2),
       PatchWork("Modify", Some(Path("f1")), Some(Path("f1")), <<"q">>, <<"y">>),
       PatchWork("Modify", Some(Path("f1")), Some(Path("f1")),
                 TextF1, <<"<", "y", ">", NL>>),
       PatchWork("Create", NoneV, Some(Path("f4")), <<>>, <<"z", NL>>),
       PatchWork("Create", NoneV, Some(Path("f1")), <<>>, <<"z", NL>>),
       PatchWork("Delete", Some(Path("f2")), NoneV, TextF2, <<>>),
       PatchWork("Delete", Some(Path("f2")), NoneV, TextF2, <<"z", NL>>),
       PatchWork("Rename", Some(Path("f1")), Some(Path("f5")), TextF1, TextF1),
       PatchWork("Rename", Some(Path("f1")), Some(Path("f5")),
                 TextF1, <<"<", "y", ">", NL>>),
       PatchWork("Rename", Some(Path("f1")), Some(Path("f2")), TextF1, TextF1) >>

\* A patch file is the sequence of the segments split_segments' loop delimits
\* in it: the label of the "--- " header and of the "+++ " header (NoneV when
\* the segment has no such line) and the body, which is the patch
\* Patch::from_str parses from it (NoneV when the body is not a unified diff).
Segment(old_label, new_label, body) ==
    [old_label |-> old_label, new_label |-> new_label, body |-> body]

\* the path of a file below the root, as a patch label spells it
BaseText(base) ==
    CASE base = "f1" -> <<"f", "1">>
      [] base = "f2" -> <<"f", "2">>
      [] base = "f3" -> <<"f", "3">>
      [] base = "f4" -> <<"f", "4">>
      [] base = "f5" -> <<"f", "5">>

\* resolve_patch_target: root.join(relative)
resolve_patch_target(relative) ==
    Path(CHOOSE base \in Bases : BaseText(base) = relative)

\* split_segments on the file: finalize_segment closes each segment
RECURSIVE SplitFile(_, _)
SplitFile(st, segments) ==
    IF segments = <<>> \/ st.failed THEN st
    ELSE SplitFile(
            finalize_segment([st EXCEPT !.buffer = Head(segments).body,
                                        !.old_label = Head(segments).old_label,
                                        !.new_label = Head(segments).new_label,
                                        !.in_segment = TRUE]),
            Tail(segments))

\* load_file_patches: the FilePatch of a segment that parsed and classified
FilePatch(segment, classified) ==
    [patch |-> segment.body.v, kind |-> classified.kind,
     old_path |-> classified.old_path, new_path |-> classified.new_path]

\* load_file_patches: the loop over the segments, Patch::from_str and
\* classify_paths on each
RECURSIVE ParseSegments(_, _, _)
ParseSegments(segments, classified, patches) ==
    IF segments = <<>> THEN Ok(patches)
    ELSE IF ~Head(segments).body.some THEN Err("ParsePatch")
    ELSE IF ~classified.ok THEN Err("UnsupportedPaths")
    ELSE IF Len(segments) = 1
       THEN Ok(Append(patches, FilePatch(Head(segments), classified.value)))
    ELSE ParseSegments(Tail(segments),
                       classify_paths(segments[2].old_label,
                                      segments[2].new_label),
                       Append(patches,
                              FilePatch(Head(segments), classified.value)))

\* load_file_patches once the file is split
ParseSplit(split) ==
    IF ~split.ok THEN split
    ELSE IF split.value = <<>> THEN Ok(<<>>)
    ELSE ParseSegments(split.value,
                       classify_paths(split.value[1].old_label,
                                      split.value[1].new_label),
                       <<>>)

load_file_patches(file) ==
    ParseSplit(SegmentsOf(SplitFile(
        [segments |-> <<>>, buffer |-> <<>>, old_label |-> NoneV,
         new_label |-> NoneV, in_segment |-> FALSE, failed |-> FALSE],
        file)))

\* collect_patch_work: the inner loop, over the patches of one file
RECURSIVE WorkOf(_)
WorkOf(patches) ==
    IF patches = <<>> THEN <<>>
    ELSE <<[kind |-> Head(patches).kind,
            old_path |-> IF Head(patches).old_path.some
                            THEN Some(resolve_patch_target(
                                        Head(patches).old_path.v))
                            ELSE NoneV,
            new_path |-> IF Head(patches).new_path.some
                            THEN Some(resolve_patch_target(
                                        Head(patches).new_path.v))
                            ELSE NoneV,
            patch |-> Head(patches).patch]>>
         \o WorkOf(Tail(patches))

\* collect_patch_work leaving out the patch files that fail to load
SkippingFile(patches, rest) ==
    IF ~patches.ok THEN rest ELSE Ok(WorkOf(patches.value) \o rest.value)

RECURSIVE collect_patch_work_skipping(_)
collect_patch_work_skipping(patch_files) ==
    IF patch_files = <<>> THEN Ok(<<>>)
    ELSE SkippingFile(load_file_patches(Head(patch_files)),
                      collect_patch_work_skipping(Tail(patch_files)))

\* collect_patch_work: every patch file is loaded, the first error is returned
\* collect_patch_work: the patches of one file are pushed unless loading
\* it, or a later file, returns an error
LoadingFile(patches, rest) ==
    IF ~patches.ok THEN patches
    ELSE IF ~rest.ok THEN rest
    ELSE Ok(WorkOf(patches.value) \o rest.value)

RECURSIVE collect_patch_work(_)
collect_patch_work(patch_files) ==
    IF patch_files = <<>> THEN Ok(<<>>)
    ELSE LoadingFile(load_file_patches(Head(patch_files)),
                     collect_patch_work(Tail(patch_files)))

\* the label of a path in a header line: a/<path> or b/<path>, or /dev/null
LabelOf(path, prefix) ==
    IF path.some THEN Some(<<prefix, "/">> \o BaseText(path.v[2]))
    ELSE Some(DevNull)

\* the segment of a patch file a work item of the catalogue is parsed from
SegmentOf(work) ==
    Segment(LabelOf(work.old_path, "a"), LabelOf(work.new_path, "b"),
            Some(work.patch))

\* the patch file holding the segments of the work items
RECURSIVE PatchFileOf(_)
PatchFileOf(work_items) ==
    IF work_items = <<>> THEN <<>>
    ELSE <<SegmentOf(Head(work_items))>> \o PatchFileOf(Tail(work_items))

\* Patch files that fail to load, each after a segment that would apply: a
\* body that is no unified diff, a segment without its "+++ " header, a
\* segment with both labels /dev/null.
BrokenPatchFiles ==
    {<<SegmentOf(PatchCatalogue[3]), broken>> :
        broken \in {Segment(Some(<<"a", "/", "f", "2">>),
                            Some(<<"b", "/", "f", "2">>), NoneV),
                    Segment(Some(<<"a", "/", "f", "2">>), NoneV,
                            Some([old |-> TextF2, new |-> TextF1])),
                    Segment(Some(DevNull), Some(DevNull),
                            Some([old |-> TextF2, new |-> TextF1]))}}

\* the patch files of a command: one file, or one file and a broken one
PatchFileLists ==
    {<<PatchFileOf(w)>> : w \in SubSeqs(PatchCatalogue, MaxEntries) \ {<<>>}}
    \cup {<<PatchFileOf(w), b>> :
            w \in SubSeqs(PatchCatalogue, 1) \ {<<>>}, b \in BrokenPatchFiles}
    \cup {<<b>> : b \in BrokenPatchFiles}

ApplyCommands ==
    {[kind |-> "apply", common |-> c, patch_files |-> p] :
        c \in Commons({<<>>}), p \in PatchFileLists}

WriteCommands ==
    {[kind |-> "write", common |-> c, path |-> p, allow_overwrite |-> o,
      body |-> b, line_ending |-> "Auto"] :
        c \in Commons({<<>>}), p \in {Path("f1"), Path("f4")}, o \in BOOLEAN,
        b \in {<<"z", NL>>, TextF1}}

CleanupCommands ==
    {[kind |-> "cleanup", apply |-> a, auto_apply |-> y] :
        a \in BOOLEAN, y \in BOOLEAN}

\* batch.rs: PlanCommon, the overrides of one step
PlanCommon(apply) ==
    [targets |-> NoneV, apply |-> apply, auto_apply |-> NoneV,
     no_backup |-> NoneV, undo_log |-> NoneV]

\* batch.rs: a PlanEntry is a replace or a normalize step
ReplacePlan(common, options) ==
    [command |-> "replace", common |-> common, diff_only |-> FALSE,
     options |-> options]

NormalizePlan(common, options) ==
    [command |-> "normalize", common |-> common, options |-> options,
     convert_encoding |-> NoneV]

PlanEntries ==
    {ReplacePlan(PlanCommon(NoneV), ReplaceOptions(<<"x">>, <<"y">>, NoneV)),
     ReplacePlan(PlanCommon(NoneV), ReplaceOptions(<<"y">>, <<"z">>, NoneV)),
     ReplacePlan(PlanCommon(Some(FALSE)),
                 ReplaceOptions(<<"y">>, <<"z">>, NoneV)),
     NormalizePlan(PlanCommon(NoneV), NormalizeOptions(TRUE))}

RECURSIVE SeqsUpTo(_, _)
SeqsUpTo(set, max) ==
    IF max = 0 THEN {<<>>}
    ELSE LET shorter == SeqsUpTo(set, max - 1)
         IN shorter \cup {<<e>> \o q : e \in set, q \in shorter}

BatchCommands ==
    {[kind |-> "batch", common |-> c, steps |-> st] :
        c \in Commons({<<Path("f1")>>, <<Path("f1"), Path("f2")>>}),
        st \in SeqsUpTo(PlanEntries, MaxSteps) \ {<<>>}}

Commands ==
    ReplaceCommands \cup BlockCommands \cup RenameCommands
    \cup NormalizeCommands \cup ApplyCommands \cup WriteCommands
    \cup CleanupCommands \cup BatchCommands

\* ============================================================ state machine
VARIABLES
    cli,         \* the command line being run
    step,        \* handle_batch: number of plan steps started
    cmd,         \* the command of the running handler
    entries,     \* its resolved entries / work items / candidates
    idx,         \* number of entries the handler's loop has finished
    apply_all,   \* the handler's local apply_all
    stats,       \* the handler's CommandStats
    pc,          \* start, batch, loop, prompt, io, break, done, failed
    cur,         \* the entry last visited and its pending write plan
    hist,        \* what has happened in the command so far, and the disk
                 \* and undo artifacts the running handler started from
    fs,          \* the disk: path -> [exists, bytes]
    undo,        \* the undo artifacts written, oldest first
    change_log   \* the records of .safeedit/change_log.jsonl

vars == <<cli, step, cmd, entries, idx, apply_all, stats, pc, cur, hist, fs,
          undo, change_log>>

\* CommandStats::default
CommandStats == [applied |-> 0, skipped |-> 0, dry_run |-> 0, no_op |-> 0]

\* the counters when an unchanged entry is not counted
BumpButNoOp(st, counter) ==
    CASE counter = "applied" -> [st EXCEPT !.applied = @ + 1]
      [] counter = "skipped" -> [st EXCEPT !.skipped = @ + 1]
      [] counter = "dry_run" -> [st EXCEPT !.dry_run = @ + 1]
      [] OTHER -> st

Bump(st, counter) ==
    CASE counter = "applied" -> [st EXCEPT !.applied = @ + 1]
      [] counter = "skipped" -> [st EXCEPT !.skipped = @ + 1]
      [] counter = "dry_run" -> [st EXCEPT !.dry_run = @ + 1]
      [] counter = "no_op" -> [st EXCEPT !.no_op = @ + 1]
      [] OTHER -> st

\* logging.rs
MAX_ENTRIES == 500

\* truncate_log keeping the head of the file instead of its tail
truncate_log_head(lines) ==
    IF Len(lines) <= MAX_ENTRIES THEN lines
    ELSE SubSeq(lines, 1, MAX_ENTRIES)

truncate_log(lines) ==
    IF Len(lines) <= MAX_ENTRIES THEN lines
    ELSE SubSeq(lines, Len(lines) - MAX_ENTRIES + 1, Len(lines))

record_change(lines, command, path, action) ==
    truncate_log(Append(lines,
        [command |-> command, path |-> path, action |-> action]))

\* the visit of one entry: what was done with it so far
Visit(path, binary) ==
    [path |-> path, binary |-> binary, read |-> FALSE, previewed |-> FALSE,
     result |-> NoneV, auto |-> FALSE, prompted |-> FALSE,
     decision |-> "none", eof |-> FALSE, counted |-> "none",
     logged |-> "none", plan |-> <<>>, todo |-> <<>>, synced |-> FALSE,
     error |-> "none", fs0 |-> fs, undo0 |-> undo]

Init ==
    /\ cli \in Commands
    /\ step = 0
    /\ cmd = cli
    /\ entries = <<>>
    /\ idx = 0
    /\ apply_all = FALSE
    /\ stats = CommandStats
    /\ pc = "start"
    /\ hist = [all_seen |-> FALSE, quit_seen |-> FALSE, pending |-> 0,
               listed |-> 0, fs_in |-> Disk0, undo_in |-> <<>>]
    /\ fs = Disk0
    /\ undo = <<>>
    /\ change_log = <<>>
    /\ cur = Visit(<<>>, FALSE)

\* ------------------------------------------------------ entering a handler
\* a handler that takes --apply alone for its apply_mode
ApplyModeIgnoringDiffOnly(c) ==
    IF c.kind = "cleanup" THEN c.apply ELSE c.common.apply

\* the handler's apply_mode
ApplyMode(c) ==
    CASE c.kind = "replace" -> c.common.apply /\ ~c.diff_only
      [] c.kind = "cleanup" -> c.apply
      [] OTHER -> c.common.apply

\* the initial value of the handler's apply_all
InitialApplyAll(c) ==
    CASE c.kind \in {"replace", "block", "rename", "apply"} ->
            c.common.auto_apply /\ ApplyMode(c)
      [] c.kind = "cleanup" -> c.auto_apply
      [] OTHER -> c.common.auto_apply

\* the entries of the handler's loop, or the error of collect_patch_work
HandlerEntries(c) ==
    CASE c.kind \in {"replace", "block", "rename", "normalize"} ->
            Ok(resolve_entries(fs, c.common.targets))
      [] c.kind = "apply" -> collect_patch_work(c.patch_files)
      [] c.kind = "write" -> Ok(<<[path |-> c.path]>>)
      [] c.kind = "cleanup" -> Ok(find_backup_files(fs))

\* The prologue of a handler, up to its loop.  handle_apply returns the error
\* of collect_patch_work here.  handle_cleanup returns here when there is no
\* candidate, and after listing them when --apply is not given, before any
\* CommandStats exists.
Entered(c, found) ==
    /\ cmd' = c
    /\ entries' = IF found.ok THEN found.value ELSE <<>>
    /\ idx' = 0
    /\ apply_all' = InitialApplyAll(c)
    /\ stats' = CommandStats
    /\ hist' = [hist EXCEPT !.pending = 0,
                            !.listed = IF c.kind = "cleanup"
                                          THEN Len(found.value) ELSE 0,
                            !.fs_in = fs, !.undo_in = undo]
    /\ cur' = [Visit(<<>>, FALSE) EXCEPT
                 !.error = IF found.ok THEN "none" ELSE found.error]
    /\ pc' = IF ~found.ok THEN "failed"
             ELSE IF c.kind = "cleanup" /\ (found.value = <<>> \/ ~c.apply)
                THEN "done"
             ELSE "loop"
    /\ UNCHANGED <<cli, fs, undo, change_log>>

EnterHandler(c) == Entered(c, HandlerEntries(c))

\* run: dispatch on the subcommand
RunCommand ==
    /\ pc = "start"
    /\ IF cli.kind = "batch"
          THEN /\ pc' = "batch"
               /\ UNCHANGED <<cli, step, cmd, entries, idx, apply_all, stats,
                              cur, hist, fs, undo, change_log>>
          ELSE /\ EnterHandler(cli)
               /\ UNCHANGED step

\* merge_common: the step's PlanCommon overrides the batch's CommonArgs
merge_common(base, overrides) ==
    [targets |-> IF overrides.targets.some THEN overrides.targets.v
                 ELSE base.targets,
     apply |-> IF overrides.apply.some THEN overrides.apply.v ELSE base.apply,
     auto_apply |-> IF overrides.auto_apply.some THEN overrides.auto_apply.v
                    ELSE base.auto_apply,
     no_backup |-> IF overrides.no_backup.some THEN overrides.no_backup.v
                   ELSE base.no_backup,
     undo_log |-> IF overrides.undo_log.some THEN overrides.undo_log
                  ELSE base.undo_log]

build_replace_command(base_common, plan) ==
    [kind |-> "replace", common |-> merge_common(base_common, plan.common),
     diff_only |-> plan.diff_only, options |-> plan.options]

build_normalize_command(base_common, plan) ==
    [kind |-> "normalize", common |-> merge_common(base_common, plan.common),
     options |-> plan.options, convert_encoding |-> plan.convert_encoding]

\* handle_batch: one iteration of the loop over the plan's steps
BatchStep ==
    /\ pc = "batch"
    /\ step < Len(cli.steps)
    /\ step' = step + 1
    /\ LET plan == cli.steps[step + 1]
       IN IF plan.command = "replace"
             THEN EnterHandler(build_replace_command(cli.common, plan))
             ELSE EnterHandler(build_normalize_command(cli.common, plan))

BatchEnd ==
    /\ pc = "batch"
    /\ step = Len(cli.steps)
    /\ pc' = "done"
    /\ UNCHANGED <<cli, step, cmd, entries, idx, apply_all, stats, cur, hist,
                   fs, undo, change_log>>

\* the end of a handler's loop: stats.print, return Ok
EndHandler ==
    /\ \/ pc = "loop" /\ idx = Len(entries)
       \/ pc = "break"
    /\ pc' = IF cli.kind = "batch" THEN "batch" ELSE "done"
    /\ UNCHANGED <<cli, step, cmd, entries, idx, apply_all, stats, cur, hist,
                   fs, undo, change_log>>

\* ------------------------------------------------------------- transforms
\* the transformer closure run_replace / run_block / run_rename hand to
\* run_transform
Transformer(c, text) ==
    CASE c.kind = "replace" -> apply_replace(text, c.options)
      [] c.kind = "block" -> apply_block(text, c.options)
      [] c.kind = "rename" -> apply_rename(text, c.options)

\* fs::read
ReadFile(disk, path) ==
    IF disk[path].exists THEN Ok(disk[path].bytes) ELSE Err("ReadError")

\* What run_transform returns, and whether it read the file: its error,
\* Ok(None) for an unchanged text, Ok(Some(TransformResult))
TransformOutcome(decoded, out) ==
    IF ~out.ok THEN [ok |-> FALSE, error |-> out.error, read |-> TRUE]
    ELSE IF ~out.value.some
       THEN [ok |-> TRUE, value |-> NoneV, read |-> TRUE]
    ELSE [ok |-> TRUE, read |-> TRUE,
          value |-> Some([decoded |-> decoded, new_text |-> out.value.v])]

TransformDecoded(decoded, c) ==
    TransformOutcome(decoded, Transformer(c, decoded.text))

\* run_transform without its check of the binary flag
run_transform_ungated(disk, entry, c) ==
    IF ~ReadFile(disk, entry.path).ok
       THEN [ok |-> FALSE, error |-> "ReadError", read |-> TRUE]
    ELSE TransformDecoded(Decode(disk[entry.path].bytes), c)

\* run_transform: a binary entry is skipped before it is read
run_transform(disk, entry, c) ==
    IF entry.is_probably_binary
       THEN [ok |-> TRUE, value |-> NoneV, read |-> FALSE]
    ELSE IF ~ReadFile(disk, entry.path).ok
       THEN [ok |-> FALSE, error |-> "ReadError", read |-> TRUE]
    ELSE TransformDecoded(Decode(disk[entry.path].bytes), c)

\* ------------------------------------------------------------- write plans
\* One step of a pending write.
Op(op, path) ==
    [op |-> op, path |-> path, old |-> <<>>, new |-> <<>>, data |-> <<>>,
     logs |-> <<>>]

\* an undo patch written whether or not an undo-log directory is given
UndoOpsAlways(c, path, old, new) ==
    <<[Op("undo", path) EXCEPT !.old = old, !.new = new]>>

UndoOps(c, path, old, new) ==
    IF c.kind # "cleanup" /\ c.common.undo_log.some
       THEN <<[Op("undo", path) EXCEPT !.old = old, !.new = new]>>
       ELSE <<>>

\* apply_transform taking its backup after the write instead of before it
apply_transform_backup_late(c, path, result, target_encoding) ==
    LET encoding == IF target_encoding.some THEN target_encoding.v
                    ELSE result.decoded.encoding
        encoded == Encode(result.new_text, encoding).bytes
    IN UndoOps(c, path, result.decoded.text, result.new_text)
       \o << Op("tmp_create", path),
             [Op("tmp_write", path) EXCEPT !.data = encoded],
             Op("tmp_sync", path), Op("tmp_rename", path),
             Op("backup", path) >>

\* apply_transform(entry, result, target_encoding, undo_dir, no_backup): the
\* undo patch, the encoding, the backup and write_via_temp
apply_transform(c, path, result, target_encoding) ==
    LET encoding == IF target_encoding.some THEN target_encoding.v
                    ELSE result.decoded.encoding
        encoded == Encode(result.new_text, encoding).bytes
    IN UndoOps(c, path, result.decoded.text, result.new_text)
       \o << Op("backup", path), Op("tmp_create", path),
             [Op("tmp_write", path) EXCEPT !.data = encoded],
             Op("tmp_sync", path), Op("tmp_rename", path) >>

\* write_new_file: apply_transform from the empty text
write_new_file(c, path, new_text) ==
    apply_transform(c, path,
        [decoded |-> [text |-> <<>>, had_errors |-> FALSE,
                      encoding |-> "UTF-8"],
         new_text |-> new_text],
        Some("UTF-8"))

\* delete_file_with_undo
delete_file_with_undo(c, disk, path, old_text) ==
    UndoOps(c, path, old_text, <<>>)
    \o (IF disk[path].exists
           THEN <<Op("backup", path), Op("remove", path)>> ELSE <<>>)

\* stats.applied += 1 and the log_change calls that follow the write
Commit(logs) == <<[Op("commit", <<>>) EXCEPT !.logs = logs]>>

Logged(path, action) == [path |-> path, action |-> action]

\* whether log_change (record_change) is called for a no-op, or only
\* emit_json_diff_event
NoOpRecorded(c) ==
    CASE c.kind \in {"replace", "normalize"} -> ApplyMode(c)
      [] OTHER -> TRUE

\* ------------------------------------------------------- ends of one visit
\* the handler returns the error
Fail(v) ==
    /\ pc' = "failed"
    /\ cur' = v
    /\ UNCHANGED <<cli, step, cmd, entries, idx, apply_all, stats, hist, fs,
                   undo, change_log>>

\* the entry is counted and logged, and the loop continues
Finish(v, counter, action, recorded) ==
    /\ cur' = [v EXCEPT !.counted = counter, !.logged = action,
                         !.plan = <<>>, !.todo = <<>>]
    /\ stats' = Bump(stats, counter)
    /\ change_log' = IF recorded
                        THEN record_change(change_log, cmd.kind, v.path, action)
                        ELSE change_log
    /\ hist' = IF v.result.some /\ ~v.prompted /\ ~v.auto
                  THEN [hist EXCEPT !.pending = @ + 1] ELSE hist
    /\ idx' = idx + 1
    /\ pc' = "loop"
    /\ UNCHANGED <<cli, step, cmd, entries, apply_all, fs, undo>>

\* apply mode: the decision is Apply when apply_all is set, otherwise the
\* user is prompted
Decide(v, plan) ==
    /\ hist' = [hist EXCEPT !.pending = @ + 1]
    /\ IF apply_all
          THEN /\ cur' = [v EXCEPT !.auto = TRUE, !.decision = "Apply",
                                   !.plan = plan, !.todo = plan]
               /\ pc' = "io"
          ELSE /\ cur' = [v EXCEPT !.plan = plan, !.todo = plan]
               /\ pc' = "prompt"
    /\ UNCHANGED <<cli, step, cmd, entries, idx, apply_all, stats, fs, undo,
                   change_log>>

\* ------------------------------------------- handle_replace / block / rename
\* one iteration of the loop, from the result of run_replace / run_block /
\* run_rename up to the decision
TransformVisited(entry, res) ==
    LET v == [Visit(entry.path, entry.is_probably_binary)
                 EXCEPT !.read = res.read]
    IN IF ~res.ok THEN Fail(v)
       ELSE IF ~res.value.some
          THEN Finish(v, "no_op", "no-op", NoOpRecorded(cmd))
       ELSE IF ~ApplyMode(cmd)
          THEN Finish([v EXCEPT !.previewed = TRUE, !.result = res.value],
                      "dry_run", "dry-run", TRUE)
       ELSE Decide([v EXCEPT !.previewed = TRUE, !.result = res.value],
                   apply_transform(cmd, entry.path, res.value.v, NoneV)
                   \o Commit(<<Logged(entry.path, "applied")>>))

VisitTransform ==
    /\ pc = "loop"
    /\ idx < Len(entries)
    /\ cmd.kind \in {"replace", "block", "rename"}
    /\ TransformVisited(entries[idx + 1],
                        run_transform(fs, entries[idx + 1], cmd))

\* ---------------------------------------------------------------- approval
\* what the user may type at the prompt; EOF is a closed standard input
Inputs == {"y", "n", "a", "q", "", "zzz", "EOF"}

\* read_line leaves the buffer empty at end of input
ReadLine(input) == IF input = "EOF" THEN "" ELSE input

\* prompt_approval's match on the trimmed, lower-cased answer; anything
\* else prints a hint and asks again
prompt_approval(input) ==
    LET answer == ReadLine(input)
    IN CASE answer \in {"y", "yes", ""} -> "Apply"
         [] answer \in {"n", "no"} -> "Skip"
         [] answer \in {"a", "all"} -> "ApplyAll"
         [] answer \in {"q", "quit"} -> "Quit"
         [] OTHER -> "Retry"

\* a match that writes for every answer but Quit
ApprovesAllButQuit(decision) == decision \in {"Apply", "ApplyAll", "Skip"}

\* the arms of `match decision` that perform the write
Approves(decision) == decision \in {"Apply", "ApplyAll"}

\* the action logged for an entry answered Skip
SkipAction(c, entry) ==
    IF c.kind = "apply" /\ entry.kind = "Rename" THEN "skipped (rename)"
    ELSE "skipped"

Prompt ==
    /\ pc = "prompt"
    /\ \E input \in Inputs :
        LET decision == prompt_approval(input)
            v == [cur EXCEPT !.prompted = TRUE, !.decision = decision,
                             !.eof = (input = "EOF")]
        IN CASE decision = "Retry" -> UNCHANGED vars
             [] Approves(decision) ->
                    /\ pc' = "io"
                    /\ cur' = v
                    /\ apply_all' = (apply_all \/ (decision = "ApplyAll"
                                                   /\ cmd.kind # "write"))
                    /\ hist' = [hist EXCEPT !.all_seen =
                                               @ \/ decision = "ApplyAll"]
                    /\ UNCHANGED <<cli, step, cmd, entries, idx, stats, fs,
                                   undo, change_log>>
             [] decision = "Skip" ->
                    Finish(v, "skipped", SkipAction(cmd, entries[idx + 1]),
                           cmd.kind # "cleanup")
             [] decision = "Quit" ->
                    /\ pc' = "break"
                    /\ cur' = [v EXCEPT !.plan = <<>>, !.todo = <<>>,
                                 !.counted = IF cmd.kind = "cleanup"
                                                THEN "none" ELSE "skipped"]
                    /\ stats' = IF cmd.kind = "cleanup" THEN stats
                                ELSE Bump(stats, "skipped")
                    /\ hist' = [hist EXCEPT !.quit_seen = TRUE]
                    /\ UNCHANGED <<cli, step, cmd, entries, idx, apply_all,
                                   fs, undo, change_log>>

\* --------------------------------------------------- the steps of a write
NextOp == Head(cur.todo)

IoStep(op) == pc = "io" /\ cur.todo # <<>> /\ NextOp.op = op

Pop == [cur EXCEPT !.todo = Tail(@)]

\* write_undo_patch: the reverse diff (new -> old) of one change
WriteUndoPatch ==
    /\ IoStep("undo")
    /\ undo' = Append(undo, [path |-> NextOp.path, from |-> NextOp.new,
                             to |-> NextOp.old])
    /\ cur' = Pop
    /\ UNCHANGED <<cli, step, cmd, entries, idx, apply_all, stats, pc, hist,
                   fs, change_log>>

NoBackup(c) == IF c.kind = "cleanup" THEN TRUE ELSE c.common.no_backup

\* a backup that always takes the first candidate
FirstBackupCandidate(disk, path) == backup_candidate(path, 0)

\* the first candidate of .bak, .bak1, .bak2, ... that does not exist
FirstFreeBackup(disk, path) ==
    LET free == {i \in 0..MaxBak : ~disk[backup_candidate(path, i)].exists}
        attempt == CHOOSE i \in free : \A j \in free : i <= j
    IN backup_candidate(path, attempt)

create_backup_if_needed(disk, path, no_backup) ==
    IF no_backup \/ ~disk[path].exists THEN disk
    ELSE [disk EXCEPT ![FirstFreeBackup(disk, path)] = File(disk[path].bytes)]

CreateBackup ==
    /\ IoStep("backup")
    /\ fs' = create_backup_if_needed(fs, NextOp.path, NoBackup(cmd))
    /\ cur' = Pop
    /\ UNCHANGED <<cli, step, cmd, entries, idx, apply_all, stats, pc, hist,
                   undo, change_log>>

\* write_via_temp: File::create
TempCreate ==
    /\ IoStep("tmp_create")
    /\ fs' = [fs EXCEPT ![temp_path(NextOp.path)] = File(<<>>)]
    /\ cur' = [Pop EXCEPT !.synced = FALSE]
    /\ UNCHANGED <<cli, step, cmd, entries, idx, apply_all, stats, pc, hist,
                   undo, change_log>>

\* write_via_temp: write_all
TempWrite ==
    /\ IoStep("tmp_write")
    /\ fs' = [fs EXCEPT ![temp_path(NextOp.path)] = File(NextOp.data)]
    /\ cur' = Pop
    /\ UNCHANGED <<cli, step, cmd, entries, idx, apply_all, stats, pc, hist,
                   undo, change_log>>

\* write_via_temp: sync_all
TempSync ==
    /\ IoStep("tmp_sync")
    /\ cur' = [Pop EXCEPT !.synced = TRUE]
    /\ UNCHANGED <<cli, step, cmd, entries, idx, apply_all, stats, pc, hist,
                   fs, undo, change_log>>

\* write_via_temp: fs::rename of the temporary file over the destination
TempRename ==
    /\ IoStep("tmp_rename")
    /\ fs' = [fs EXCEPT ![NextOp.path] = fs[temp_path(NextOp.path)],
                        ![temp_path(NextOp.path)] = NoFile]
    /\ cur' = Pop
    /\ UNCHANGED <<cli, step, cmd, entries, idx, apply_all, stats, pc, hist,
                   undo, change_log>>

\* fs::remove_file
RemoveFile ==
    /\ IoStep("remove")
    /\ fs[NextOp.path].exists
    /\ fs' = [fs EXCEPT ![NextOp.path] = NoFile]
    /\ cur' = Pop
    /\ UNCHANGED <<cli, step, cmd, entries, idx, apply_all, stats, pc, hist,
                   undo, change_log>>

RECURSIVE RecordAll(_, _, _)
RecordAll(lines, command, logs) ==
    IF logs = <<>> THEN lines
    ELSE RecordAll(record_change(lines, command, Head(logs).path,
                                 Head(logs).action),
                   command, Tail(logs))

\* after the write: stats.applied += 1, log_change, next entry
Applied ==
    /\ IoStep("commit")
    /\ stats' = Bump(stats, "applied")
    /\ change_log' = RecordAll(change_log, cmd.kind, NextOp.logs)
    /\ cur' = [cur EXCEPT !.todo = <<>>, !.counted = "applied",
                 !.logged = IF NextOp.logs = <<>> THEN "none"
                            ELSE Head(NextOp.logs).action]
    /\ idx' = idx + 1
    /\ pc' = "loop"
    /\ UNCHANGED <<cli, step, cmd, entries, apply_all, hist, fs, undo>>

\* An I/O step fails and the error is returned: nothing of the step is done,
\* except that a failed write_all may leave a part of the data in the
\* temporary file and a failed rename removes the temporary file.
IoError ==
    /\ pc = "io"
    /\ cur.todo # <<>>
    /\ NextOp.op # "commit"
    /\ NextOp.op = "backup" =>
            ~NoBackup(cmd) /\ fs[NextOp.path].exists
    /\ \E k \in 0..Len(NextOp.data) \div 2 :
        fs' = CASE NextOp.op = "tmp_write" ->
                      [fs EXCEPT ![temp_path(NextOp.path)] =
                                    File(SubSeq(NextOp.data, 1, 2 * k))]
                [] NextOp.op = "tmp_rename" ->
                      [fs EXCEPT ![temp_path(NextOp.path)] = NoFile]
                [] OTHER -> fs
    /\ pc' = "failed"
    /\ UNCHANGED <<cli, step, cmd, entries, idx, apply_all, stats, cur, hist,
                   undo, change_log>>

\* --------------------------------------------------------- handle_normalize
\* one iteration of the loop once the entry is read, decoded and normalized
NormalizeVisited(entry, decoded, cleaned) ==
    LET v == [Visit(entry.path, FALSE) EXCEPT !.read = TRUE]
        convert_requested == cmd.convert_encoding.some
        convert_only == ~cleaned.some /\ convert_requested
        result == [decoded |-> decoded,
                   new_text |-> IF cleaned.some THEN cleaned.v
                                ELSE decoded.text]
    IN IF ~cleaned.some /\ ~convert_requested
          THEN Finish(v, "no_op", "no-op", NoOpRecorded(cmd))
       ELSE IF ~cmd.common.apply
          THEN Finish([v EXCEPT !.previewed = ~convert_only,
                                !.result = Some(result)],
                      "dry_run", "dry-run", TRUE)
       ELSE Decide([v EXCEPT !.previewed = ~convert_only,
                             !.result = Some(result)],
                   apply_transform(cmd, entry.path, result,
                                   cmd.convert_encoding)
                   \o Commit(<<Logged(entry.path, "applied")>>))

NormalizeDecoded(entry, decoded) ==
    NormalizeVisited(entry, decoded, normalize_text(decoded.text, cmd.options))

VisitNormalize ==
    /\ pc = "loop"
    /\ idx < Len(entries)
    /\ cmd.kind = "normalize"
    /\ LET entry == entries[idx + 1]
       IN IF entry.is_probably_binary
             THEN Finish(Visit(entry.path, TRUE), "skipped", "skipped", TRUE)
          ELSE IF ~ReadFile(fs, entry.path).ok
             THEN Fail([Visit(entry.path, FALSE) EXCEPT !.read = TRUE])
          ELSE NormalizeDecoded(entry, Decode(fs[entry.path].bytes))

\* -------------------------------------------------------------- handle_write
\* LineEndingChoice::resolve; the system default is LF
LineEndingResolve(choice, existing) ==
    CASE choice = "Auto" -> IF existing.some THEN existing.v ELSE "Lf"
      [] OTHER -> choice

\* handle_write once the existing file, if any, is read and decoded
WriteVisited(path, exists, existing, new_text) ==
    LET v == [Visit(path, FALSE) EXCEPT !.read = exists]
        old_text == IF exists THEN existing.text ELSE <<>>
        decoded == IF exists THEN existing
                   ELSE [text |-> <<>>, had_errors |-> FALSE,
                         encoding |-> "UTF-8"]
        result == [decoded |-> decoded, new_text |-> new_text]
    IN IF old_text = new_text
          THEN Finish(v, "no_op", "no-op", TRUE)
       ELSE IF ~cmd.common.apply
          THEN Finish([v EXCEPT !.previewed = TRUE, !.result = Some(result)],
                      "dry_run", "dry-run", TRUE)
       ELSE Decide([v EXCEPT !.previewed = TRUE, !.result = Some(result)],
                   apply_transform(cmd, path, result, Some(decoded.encoding))
                   \o Commit(<<Logged(path, "applied")>>))

WriteDecoded(path, exists, existing) ==
    WriteVisited(path, exists, existing,
        restore_from_lf(normalize_to_lf(cmd.body),
            LineEndingResolve(cmd.line_ending,
                IF exists THEN Some(detect_line_ending_style(existing.text))
                ELSE NoneV)))

\* handle_write without the refusal of an existing path
VisitWriteOverwriting ==
    /\ pc = "loop"
    /\ idx < Len(entries)
    /\ cmd.kind = "write"
    /\ WriteDecoded(cmd.path, fs[cmd.path].exists, Decode(fs[cmd.path].bytes))

VisitWrite ==
    /\ pc = "loop"
    /\ idx < Len(entries)
    /\ cmd.kind = "write"
    /\ IF fs[cmd.path].exists /\ ~cmd.allow_overwrite
          THEN Fail(Visit(cmd.path, FALSE))
          ELSE WriteDecoded(cmd.path, fs[cmd.path].exists,
                            Decode(fs[cmd.path].bytes))

\* ------------------------------------------------------------ handle_cleanup
\* one iteration of the loop over the backup files found
VisitCleanup ==
    /\ pc = "loop"
    /\ idx < Len(entries)
    /\ cmd.kind = "cleanup"
    /\ LET path == entries[idx + 1].path
       IN Decide(Visit(path, FALSE), <<Op("remove", path)>> \o Commit(<<>>))

\* -------------------------------------------------------------- handle_apply
\* the file a work item reads: the patched file, or the source of a rename
PatchSource(work) ==
    IF work.kind \in {"Delete", "Rename"} THEN work.old_path.v
    ELSE work.new_path.v

\* the path a work item is prompted for, written to and logged under
PatchPath(work) ==
    IF work.kind = "Delete" THEN work.old_path.v ELSE work.new_path.v

\* the write of an approved work item, a Rename removing the old path before
\* it writes the new one
PatchPlanRemovingFirst(work, decoded, new_text) ==
    LET path == PatchPath(work)
        result == [decoded |-> decoded, new_text |-> new_text]
    IN CASE work.kind = "Modify" ->
              apply_transform(cmd, path, result, NoneV)
              \o Commit(<<Logged(path, "applied")>>)
         [] work.kind = "Create" ->
              write_new_file(cmd, path, new_text)
              \o Commit(<<Logged(path, "applied")>>)
         [] work.kind = "Delete" ->
              delete_file_with_undo(cmd, fs, path, decoded.text)
              \o Commit(<<Logged(path, "applied")>>)
         [] work.kind = "Rename" ->
              delete_file_with_undo(cmd, fs, PatchSource(work),
                                    decoded.text)
              \o apply_transform(cmd, path, result, Some(decoded.encoding))
              \o Commit(<<Logged(path, "applied (rename)"),
                          Logged(PatchSource(work), "deleted (rename)")>>)

\* the write of an approved work item
PatchPlan(work, decoded, new_text) ==
    LET path == PatchPath(work)
        result == [decoded |-> decoded, new_text |-> new_text]
    IN CASE work.kind = "Modify" ->
              apply_transform(cmd, path, result, NoneV)
              \o Commit(<<Logged(path, "applied")>>)
         [] work.kind = "Create" ->
              write_new_file(cmd, path, new_text)
              \o Commit(<<Logged(path, "applied")>>)
         [] work.kind = "Delete" ->
              delete_file_with_undo(cmd, fs, path, decoded.text)
              \o Commit(<<Logged(path, "applied")>>)
         [] work.kind = "Rename" ->
              apply_transform(cmd, path, result, Some(decoded.encoding))
              \o delete_file_with_undo(cmd, fs, PatchSource(work),
                                       decoded.text)
              \o Commit(<<Logged(path, "applied (rename)"),
                          Logged(PatchSource(work), "deleted (rename)")>>)

\* String::is_empty, always true in a variant
is_empty_always(text) == TRUE

\* String::is_empty
is_empty(text) == Len(text) = 0

\* one work item once its file is read and decoded and the patch applied
PatchVisited(work, v, decoded, patched) ==
    LET kind == work.kind
        new_text == patched.value
        seen == [v EXCEPT
                   !.result = Some([decoded |-> decoded,
                                    new_text |-> new_text]),
                   !.previewed = (kind # "Rename" \/ new_text # decoded.text)]
    IN IF ~patched.ok THEN Fail([v EXCEPT !.error = "ApplyError"])
       ELSE IF kind = "Delete" /\ ~is_empty(new_text)
          THEN Fail([v EXCEPT !.error = "DeleteNotEmpty"])
       ELSE IF kind = "Modify" /\ new_text = decoded.text
          THEN Finish(v, "no_op", "no-op", ApplyMode(cmd))
       ELSE IF kind = "Create" /\ new_text = <<>>
          THEN Finish(v, "no_op", "no-op", FALSE)
       ELSE IF ~ApplyMode(cmd)
          THEN Finish(seen, "dry_run",
                      IF kind = "Rename" THEN "dry-run (rename)" ELSE "dry-run",
                      TRUE)
       ELSE Decide(seen, PatchPlan(work, decoded, new_text))

PatchDecoded(work, v, decoded) ==
    PatchVisited(work, v, decoded,
                 apply_patch_preserving_newlines(decoded.text, work.patch))

\* one work item up to its decision
VisitPatch ==
    /\ pc = "loop"
    /\ idx < Len(entries)
    /\ cmd.kind = "apply"
    /\ LET work == entries[idx + 1]
           path == PatchPath(work)
           source == PatchSource(work)
           refused ==
               \/ work.kind = "Create" /\ fs[path].exists
               \/ work.kind = "Rename" /\ path # source /\ fs[path].exists
           v == [Visit(path, FALSE) EXCEPT
                    !.read = work.kind # "Create" /\ ~refused]
       IN IF refused THEN Fail([v EXCEPT !.error = "AlreadyExists"])
          ELSE IF work.kind = "Create"
             THEN PatchDecoded(work, v, Decode(<<>>))
          ELSE IF ~ReadFile(fs, source).ok
             THEN Fail([v EXCEPT !.error = "Io"])
          ELSE PatchDecoded(work, v, Decode(fs[source].bytes))

\* ------------------------------------------------------------ specification
Next ==
    \/ RunCommand
    \/ BatchStep
    \/ BatchEnd
    \/ EndHandler
    \/ VisitTransform
    \/ VisitNormalize
    \/ VisitWrite
    \/ VisitCleanup
    \/ VisitPatch
    \/ Prompt
    \/ WriteUndoPatch
    \/ CreateBackup
    \/ TempCreate
    \/ TempWrite
    \/ TempSync
    \/ TempRename
    \/ RemoveFile
    \/ Applied
    \/ IoError

Spec == Init /\ [][Next]_vars

\* ------------------------------------------------------------------- diff.rs
DIFF_MAX_LINES == 5000
DIFF_MAX_BYTES == 5242880
DIFF_MAX_LINE_BYTES == 65536

\* DIFF_LINE_TRUNCATION_SUFFIX.len(): "... (line truncated)\n"
SuffixLen == 21

\* A rendered line, by what push_line and truncate_line look at: its length
\* in bytes, the offset of its line feed (0: none) and whether it ends with
\* the truncation suffix.
Line(len, nl) == [len |-> len, nl |-> nl, suffix |-> FALSE]

truncate_line(line) ==
    IF line.len <= SuffixLen
       THEN [len |-> SuffixLen, nl |-> SuffixLen, suffix |-> TRUE]
    ELSE LET target_len == DIFF_MAX_LINE_BYTES - SuffixLen
             cut == Min(line.len, target_len)
             kept == IF line.nl = cut THEN cut - 1 ELSE cut
         IN [len |-> kept + SuffixLen, nl |-> kept + SuffixLen,
             suffix |-> TRUE]

\* DiffBuffer, empty
DiffBuffer0 ==
    [lines |-> <<>>, total_bytes |-> 0, truncated |-> FALSE,
     truncate_reason |-> NoneV, line_truncations |-> 0]

\* a push_line that stops at the byte cap without recording the reason
push_line_unreported(buffer, line) ==
    LET exceeded == line.len > DIFF_MAX_LINE_BYTES
        pushed == IF exceeded THEN truncate_line(line) ELSE line
        b == [buffer EXCEPT
                !.line_truncations = IF exceeded THEN @ + 1 ELSE @,
                !.total_bytes = @ + pushed.len,
                !.lines = Append(@, pushed)]
    IN IF Len(b.lines) >= DIFF_MAX_LINES
          THEN [buffer |-> [b EXCEPT !.truncated = TRUE,
                                     !.truncate_reason = Some("LineCount")],
                more |-> FALSE]
       ELSE IF b.total_bytes >= DIFF_MAX_BYTES
          THEN [buffer |-> [b EXCEPT !.truncated = TRUE], more |-> FALSE]
       ELSE [buffer |-> b, more |-> TRUE]

\* DiffBuffer::push_line: the buffer after the push, and the bool returned.
\* total_bytes stays far below usize::MAX, so saturating_add is the sum.
push_line(buffer, line) ==
    LET exceeded == line.len > DIFF_MAX_LINE_BYTES
        pushed == IF exceeded THEN truncate_line(line) ELSE line
        b == [buffer EXCEPT
                !.line_truncations = IF exceeded THEN @ + 1 ELSE @,
                !.total_bytes = @ + pushed.len,
                !.lines = Append(@, pushed)]
    IN IF Len(b.lines) >= DIFF_MAX_LINES
          THEN [buffer |-> [b EXCEPT !.truncated = TRUE,
                                     !.truncate_reason = Some("LineCount")],
                more |-> FALSE]
       ELSE IF b.total_bytes >= DIFF_MAX_BYTES
          THEN [buffer |-> [b EXCEPT !.truncated = TRUE,
                                     !.truncate_reason = Some("ByteCount")],
                more |-> FALSE]
       ELSE [buffer |-> b, more |-> TRUE]

\* DiffBuffer::print_warnings: the lines it prints, the cap warning first
Warning(kind, cap, count) == [kind |-> kind, cap |-> cap, count |-> count]

print_warnings(buffer) ==
    (IF buffer.truncate_reason.some
        THEN <<Warning("truncated", buffer.truncate_reason.v, 0)>> ELSE <<>>)
    \o (IF buffer.line_truncations > 0
           THEN <<Warning("long_lines", "none", buffer.line_truncations)>>
           ELSE <<>>)

\* similar's TextDiff::from_lines(old, new), on texts given as their lines:
\* the edit scripts that step through both texts, "E" for a line kept, "D"
\* for a line of old deleted and "I" for a line of new inserted.
RECURSIVE EditScripts(_, _, _, _)
EditScripts(old, new, i, j) ==
    LET keep == IF i <= Len(old) /\ j <= Len(new) /\ old[i] = new[j]
                THEN {<<"E">> \o s : s \in EditScripts(old, new, i + 1, j + 1)}
                ELSE {}
        del == IF i <= Len(old)
               THEN {<<"D">> \o s : s \in EditScripts(old, new, i + 1, j)}
               ELSE {}
        ins == IF j <= Len(new)
               THEN {<<"I">> \o s : s \in EditScripts(old, new, i, j + 1)}
               ELSE {}
    IN IF i > Len(old) /\ j > Len(new) THEN {<<>>}
       ELSE keep \cup del \cup ins

\* The Myers algorithm returns a shortest edit script; which of several
\* shortest scripts it returns is left open.
ShortestScripts(old, new) ==
    LET all == EditScripts(old, new, 1, 1)
    IN {s \in all : \A t \in all : Len(s) <= Len(t)}

\* the end of the run of script that starts at k: a run of kept lines, or
\* a run of deleted and inserted lines
RECURSIVE RunEnd(_, _)
RunEnd(script, k) ==
    IF k < Len(script) /\ (script[k + 1] = "E") = (script[k] = "E")
       THEN RunEnd(script, k + 1)
    ELSE k

CountTag(script, from, to, tag) ==
    Cardinality({k \in from..to : script[k] = tag})

\* TextDiff::ops: one DiffOp per run, with its 0-based half-open ranges; a
\* run of deleted and inserted lines is a Replace
RECURSIVE DiffOps(_, _, _, _)
DiffOps(script, k, old_index, new_index) ==
    IF k > Len(script) THEN <<>>
    ELSE LET e == RunEnd(script, k)
             kept == CountTag(script, k, e, "E")
             old_len == kept + CountTag(script, k, e, "D")
             new_len == kept + CountTag(script, k, e, "I")
             tag == IF kept > 0 THEN "Equal"
                    ELSE IF new_len = 0 THEN "Delete"
                    ELSE IF old_len = 0 THEN "Insert"
                    ELSE "Replace"
         IN <<[tag |-> tag,
               old_range |-> [start |-> old_index, end |-> old_index + old_len],
               new_range |-> [start |-> new_index, end |-> new_index + new_len]]>>
            \o DiffOps(script, e + 1, old_index + old_len, new_index + new_len)

LineSpan(kind, start, end) == [kind |-> kind, start |-> start, end |-> end]

\* a collect_line_spans that takes the new-side lines for every op
RECURSIVE collect_line_spans_new_side(_)
collect_line_spans_new_side(ops) ==
    IF ops = <<>> THEN <<>>
    ELSE LET op == Head(ops)
             span ==
               CASE op.tag = "Equal" -> <<>>
                 [] op.tag \in {"Delete", "Replace"} ->
                      IF op.new_range.start + 1 <= op.new_range.end
                         THEN <<LineSpan("Modified", op.new_range.start + 1,
                                         op.new_range.end)>>
                      ELSE <<>>
                 [] op.tag = "Insert" ->
                      IF op.new_range.start + 1 <= op.new_range.end
                         THEN <<LineSpan("Added", op.new_range.start + 1,
                                         op.new_range.end)>>
                      ELSE <<>>
         IN span \o collect_line_spans_new_side(Tail(ops))

\* collect_line_spans, from the ops of the diff
RECURSIVE collect_line_spans(_)
collect_line_spans(ops) ==
    IF ops = <<>> THEN <<>>
    ELSE LET op == Head(ops)
             span ==
               CASE op.tag = "Equal" -> <<>>
                 [] op.tag \in {"Delete", "Replace"} ->
                      IF op.old_range.start + 1 <= op.old_range.end
                         THEN <<LineSpan("Modified", op.old_range.start + 1,
                                         op.old_range.end)>>
                      ELSE <<>>
                 [] op.tag = "Insert" ->
                      IF op.new_range.start + 1 <= op.new_range.end
                         THEN <<LineSpan("Added", op.new_range.start + 1,
                                         op.new_range.end)>>
                      ELSE <<>>
         IN span \o collect_line_spans(Tail(ops))

\* ====================================================== the text operations
\* A second specification: one call of a text operation (apply_replace,
\* apply_block, apply_rename, the patch functions) on inputs drawn from
\* bounded sets.  cli holds the call, cur its return value, pc is "call" or
\* "return"; the disk is not touched.

\* Longest generated input text of a call.
MaxText == 4

RECURSIVE TextsUpTo(_, _)
\* the texts over `chars` of length at most max
TextsUpTo(chars, max) ==
    IF max = 0 THEN {<<>>}
    ELSE LET shorter == TextsUpTo(chars, max - 1)
         IN shorter \cup {<<c>> \o t : c \in chars, t \in shorter}

\* "alpha\nfoo\nbeta\nfoo\n"
AlphaFooBetaFoo ==
    <<"a", "l", "p", "h", "a", NL, "f", "o", "o", NL,
      "b", "e", "t", "a", NL, "f", "o", "o", NL>>

OptionValues == {NoneV, Some(0), Some(1), Some(2)}

\* ReplaceOptions with after_line, count and expect
ReplaceOptionsFull(pattern, replacement, after_line, count, expect) ==
    [pattern |-> pattern, replacement |-> replacement,
     after_line |-> after_line, count |-> count, expect |-> expect]

ReplaceCalls ==
    {[fn |-> "apply_replace", text |-> t,
      options |-> ReplaceOptionsFull(p, r, a, c, e)] :
        t \in TextsUpTo({"x", NL}, MaxText),
        p \in {<<"x">>, <<"x", "x">>},
        r \in {<<"y">>, <<>>, <<"x", "y">>},
        a \in OptionValues, c \in OptionValues, e \in OptionValues}
    \cup
    {[fn |-> "apply_replace", text |-> AlphaFooBetaFoo,
      options |-> ReplaceOptionsFull(<<"f", "o", "o">>, <<"F", "O", "O">>,
                                     a, c, NoneV)] :
        a \in OptionValues, c \in OptionValues}

\* BlockOptions with its markers
BlockOptionsFull(start_marker, end_marker, mode, body) ==
    [start_marker |-> start_marker, end_marker |-> end_marker, mode |-> mode,
     body |-> body]

\* texts with CRLF line ends and indented markers
BlockTexts ==
    TextsUpTo({"<", ">", "x", SP, NL}, MaxText)
    \cup {<<SP, "<", CR, NL, SP, "x", CR, NL, SP, ">">>,
          <<TAB, "<", NL, TAB, "x", NL, TAB, ">", NL>>,
          <<"<", NL, "x", NL, SP, SP, ">">>,
          <<"<", NL, "x", NL, ">">>,
          <<"<", NL, "x", NL, ">", NL>>,
          <<SP, "<", NL, NL, ">">>}

BlockBodies ==
    {<<>>, <<"x">>, <<"y">>, <<SP, "x">>, <<"y", NL>>, <<NL, "y", NL>>,
     <<"y", CR, NL, "z">>}

BlockCalls ==
    {[fn |-> "apply_block", text |-> t,
      options |-> BlockOptionsFull(<<"<">>, e, m, b)] :
        t \in BlockTexts, e \in {<<">">>, <<"<">>},
        m \in {"Replace", "Insert"}, b \in BlockBodies}

\* RenameOptions with its two flags
RenameOptionsFull(from, to, word_boundary, case_aware) ==
    [from |-> from, to |-> to, word_boundary |-> word_boundary,
     case_aware |-> case_aware]

\* "Foo foo FOO"
FooFooFoo == <<"F", "o", "o", SP, "f", "o", "o", SP, "F", "O", "O">>

RenameCalls ==
    {[fn |-> "apply_rename", text |-> t,
      options |-> RenameOptionsFull(f, r, w, c)] :
        t \in TextsUpTo({"x", "X", "_", SP}, MaxText),
        f \in {<<"x">>, <<"x", "x">>, <<"_", "x">>},
        r \in {<<"y">>, <<"y", "Z">>, <<"Y", "z">>},
        w \in BOOLEAN, c \in BOOLEAN}
    \cup
    {[fn |-> "apply_rename", text |-> FooFooFoo,
      options |-> RenameOptionsFull(<<"f", "o", "o">>, <<"b", "a", "r">>,
                                    w, c)] :
        w \in BOOLEAN, c \in BOOLEAN}

\* Patch labels, each with the path it stands for (NoneV for no path):
\* /dev/null, b/new.rs, a/o, b/n, a/n, n, ./n, "a/n" in quotes, b/n between
\* spaces, a/./n, a/b/n, a/, the empty label, /dev/null between spaces, b/n/
Labels ==
    {<<DevNull, NoneV>>,
     <<<<"b", "/", "n", "e", "w", ".", "r", "s">>,
       Some(<<"n", "e", "w", ".", "r", "s">>)>>,
     <<<<"a", "/", "o">>, Some(<<"o">>)>>,
     <<<<"b", "/", "n">>, Some(<<"n">>)>>,
     <<<<"a", "/", "n">>, Some(<<"n">>)>>,
     <<<<"n">>, Some(<<"n">>)>>,
     <<<<".", "/", "n">>, Some(<<"n">>)>>,
     <<<<"\"", "a", "/", "n", "\"">>, Some(<<"n">>)>>,
     <<<<SP, "b", "/", "n", SP>>, Some(<<"n">>)>>,
     <<<<"a", "/", ".", "/", "n">>, Some(<<"n">>)>>,
     <<<<"a", "/", "b", "/", "n">>, Some(<<"b", "/", "n">>)>>,
     <<<<"a", "/">>, NoneV>>,
     <<<<>>, NoneV>>,
     <<<<SP>> \o DevNull \o <<SP>>, NoneV>>,
     <<<<"b", "/", "n", "/">>, Some(<<"n">>)>>}

ClassifyCalls ==
    {[fn |-> "classify_paths", old |-> o, new |-> n] :
        o \in Labels, n \in Labels}

\* Largest number of lines of a generated patch text.
MaxLines == 4

\* The lines patch texts are made of: "diff --g", "--- a/o", "--- a/o" with
\* a CRLF line end, "+++ b/n", "@@", "+n", "-o".
PatchLines ==
    {DiffPrefix \o <<"g", NL>>,
     OldPrefix \o <<"a", "/", "o", NL>>,
     OldPrefix \o <<"a", "/", "o", CR, NL>>,
     NewPrefix \o <<"b", "/", "n", NL>>,
     <<"@", "@", NL>>,
     <<"+", "n", NL>>,
     <<"-", "o", NL>>}

\* "@@ -1 +1 @@": the header of a hunk of one deleted and one added line
HunkOneOne ==
    <<"@", "@", SP, "-", "1", SP, "+", "1", SP, "@", "@", NL>>

\* Patch texts with complete hunks: two files, the second without a
\* `diff --` line; one file whose hunk deletes the line "-- a/o" and adds
\* the line "++ b/n".
HunkPatches ==
    {<<DiffPrefix \o <<"g", NL>>,
       OldPrefix \o <<"a", "/", "o", NL>>, NewPrefix \o <<"b", "/", "n", NL>>,
       HunkOneOne, <<"-", "o", NL>>, <<"+", "n", NL>>,
       OldPrefix \o <<"a", "/", "o", NL>>, NewPrefix \o <<"b", "/", "n", NL>>,
       HunkOneOne, <<"-", "o", NL>>, <<"+", "n", NL>>>>,
     <<OldPrefix \o <<"a", "/", "o", NL>>, NewPrefix \o <<"b", "/", "n", NL>>,
       HunkOneOne,
       OldPrefix \o <<"a", "/", "o", NL>>, NewPrefix \o <<"b", "/", "n", NL>>>>}

SplitCalls ==
    {[fn |-> "split_segments", lines |-> l] :
        l \in SeqsUpTo(PatchLines, MaxLines) \cup HunkPatches}

\* A source line: its content and its terminator
SourceLines ==
    {[content |-> c, term |-> t] :
        c \in {<<"a">>, <<"b">>}, t \in {<<NL>>, <<CR, NL>>, <<CR>>}}

\* "alpha\r\nbeta\r\n"
AlphaBetaCrlf ==
    <<[content |-> <<"a", "l", "p", "h", "a">>, term |-> <<CR, NL>>],
      [content |-> <<"b", "e", "t", "a">>, term |-> <<CR, NL>>]>>

\* the text of a sequence of lines, each with the terminator Term(line)
TextOfLines(lines, Content(_), Term(_)) ==
    Concat([i \in DOMAIN lines |-> Content(lines[i]) \o Term(lines[i])])

\* the patch appends "2" to every line that starts with "b"
PatchedContent(line) ==
    IF line.content[1] = "b" THEN line.content \o <<"2">> ELSE line.content

\* A call of apply_patch_preserving_newlines on the text of `lines` with a
\* patch (LF text on both sides) whose old side is the source, or, for a
\* patch made for another file, is not.
PatchCalls ==
    {[fn |-> "apply_patch", lines |-> l, fits |-> f] :
        l \in SeqsUpTo(SourceLines, MaxLines) \cup {AlphaBetaCrlf},
        f \in BOOLEAN}

\* The lengths of the lines DiffBuffer::build pushes for a diff, separators
\* and rendered changes alike: line i has the length
\* lens[((i - 1) % Len(lens)) + 1] and ends with its line feed.
LinePatterns ==
    {<<3>>, <<4, 3, 3>>, <<65535>>, <<65536>>, <<65537>>, <<3, 70000>>,
     <<100000, 10>>}

\* A call of DiffBuffer::build on texts whose diff renders to n lines
BuildCalls ==
    {[fn |-> "build", lens |-> p, n |-> n] :
        p \in LinePatterns, n \in {0, 2, 90, DIFF_MAX_LINES + 1}}

\* Largest number of lines of a text that is diffed.
MaxDiffLines == 3

\* A call of collect_line_spans on two texts, given as their lines
SpanCalls ==
    {[fn |-> "collect_line_spans", old |-> o, new |-> n] :
        o \in SeqsUpTo({"a", "b", "c"}, MaxDiffLines),
        n \in SeqsUpTo({"a", "b", "c"}, MaxDiffLines)}
    \cup {[fn |-> "collect_line_spans", old |-> <<"one", "old", "three">>,
           new |-> <<"one", "new", "three", "extra">>]}

\* A sequence of n calls of record_change, on a log that does not exist yet
LogCalls ==
    {[fn |-> "record_change", n |-> n] : n \in {1, MAX_ENTRIES + 2}}

\* the encodings chardetng may guess for bytes that are not UTF-8
DetectorGuesses == {"windows-1252", "GBK"}

\* A call of EncodingStrategy::decide: the bytes are made of the bytes of
\* the byte-order marks, of "x" and of "\u{e9}" (0xC3 0xA9)
DecideCalls ==
    {[fn |-> "decide", override_encoding |-> o, bytes |-> b] :
        o \in {NoneV, Some("UTF-16LE"), Some("windows-1252")},
        b \in SeqsUpTo({120, 239, 187, 191, 255, 254, 195, 169}, MaxText)}

\* the decisions a strategy with this override takes for the files it reads
DecisionsOf(override_encoding) ==
    IF override_encoding.some
       THEN {EncodingDecision(override_encoding.v, "Override")}
    ELSE {EncodingDecision("UTF-8", "Bom"), EncodingDecision("UTF-16LE", "Bom"),
          EncodingDecision("UTF-16BE", "Bom"),
          EncodingDecision("UTF-8", "AssumedUtf8"),
          EncodingDecision("windows-1252", "Detector")}

\* A text is written to a file with the encoding decided for the file, as
\* apply_transform does, and the file is read back by the same strategy.
RoundTripCalls ==
    {[fn |-> "round_trip", override_encoding |-> o, decision |-> d,
      text |-> t] :
        o \in {NoneV, Some("UTF-8"), Some("UTF-16LE"), Some("windows-1252")},
        d \in {EncodingDecision(e, s) :
                 e \in {"UTF-8", "UTF-16LE", "UTF-16BE", "windows-1252"},
                 s \in {"Override", "Bom", "AssumedUtf8", "Detector"}},
        t \in TextsUpTo({"x", "<", ZWSP}, MaxText)}

\* ---------------------------------------------------------------- levenshtein
\* commands.rs levenshtein: the inner loop over b_chars for one character ca
\* of a; current holds current[0..j], and current[j + 1] is appended.
RECURSIVE LevRowNoInsert(_, _, _, _)
LevRowNoInsert(ca, b_chars, previous, current) ==
    IF Len(current) = Len(b_chars) + 1 THEN current
    ELSE LevRowNoInsert(ca, b_chars, previous,
            Append(current,
                   Min(previous[Len(current) + 1] + 1,
                       previous[Len(current)]
                       + (IF ca = b_chars[Len(current)] THEN 0 ELSE 1))))

RECURSIVE LevRow(_, _, _, _)
LevRow(ca, b_chars, previous, current) ==
    IF Len(current) = Len(b_chars) + 1 THEN current
    ELSE LevRow(ca, b_chars, previous,
            Append(current,
                   Min(Min(current[Len(current)] + 1,
                           previous[Len(current) + 1] + 1),
                       previous[Len(current)]
                       + (IF ca = b_chars[Len(current)] THEN 0 ELSE 1))))

\* the outer loop: row i of a (counted from 1) turns previous into current,
\* and the two are swapped
RECURSIVE LevRows(_, _, _, _)
LevRows(a_chars, b_chars, i, previous) ==
    IF i > Len(a_chars) THEN previous
    ELSE LevRows(a_chars, b_chars, i + 1,
                 LevRow(a_chars[i], b_chars, previous, <<i>>))

levenshtein(a, b) ==
    IF a = <<>> THEN Len(b)
    ELSE IF b = <<>> THEN Len(a)
    ELSE LevRows(a, b, 1, [j \in 1..(Len(b) + 1) |-> j - 1])[Len(b) + 1]

\* Longest string given to levenshtein.
MaxWord == 2

\* Three strings of code points, one of them outside ASCII
LevCalls ==
    {[fn |-> "levenshtein", a |-> a, b |-> b, c |-> c] :
        a \in SeqsUpTo({"a", "b", ZWSP}, MaxWord),
        b \in SeqsUpTo({"a", "b", ZWSP}, MaxWord),
        c \in SeqsUpTo({"a", "b", ZWSP}, MaxWord)}

TextInit ==
    /\ \/ cli \in ReplaceCalls
       \/ cli \in {c \in RoundTripCalls :
                      c.decision \in DecisionsOf(c.override_encoding)}
       \/ cli \in DecideCalls
       \/ cli \in LogCalls
       \/ cli \in SpanCalls
       \/ cli \in BuildCalls
       \/ cli \in PatchCalls
       \/ cli \in SplitCalls
       \/ cli \in BlockCalls
       \/ cli \in RenameCalls
       \/ cli \in ClassifyCalls
       \/ cli \in LevCalls
    /\ cmd = cli
    /\ pc = "call"
    /\ cur = <<>>
    /\ step = 0
    /\ entries = <<>>
    /\ idx = 0
    /\ apply_all = FALSE
    /\ stats = CommandStats
    /\ hist = <<>>
    /\ fs = Disk0
    /\ undo = <<>>
    /\ change_log = <<>>

\* the call returns `result`
Return(result) ==
    /\ pc' = "return"
    /\ cur' = result
    /\ UNCHANGED <<cli, step, cmd, entries, idx, apply_all, stats, hist, fs,
                   undo, change_log>>

CallApplyReplace ==
    /\ pc = "call"
    /\ cli.fn = "apply_replace"
    /\ Return(apply_replace(cli.text, cli.options))

CallApplyBlock ==
    /\ pc = "call"
    /\ cli.fn = "apply_block"
    /\ Return(apply_block(cli.text, cli.options))

CallApplyRename ==
    /\ pc = "call"
    /\ cli.fn = "apply_rename"
    /\ Return(apply_rename(cli.text, cli.options))

CallClassifyPaths ==
    /\ pc = "call"
    /\ cli.fn = "classify_paths"
    /\ Return(classify_paths(cli.old[1], cli.new[1]))

CallSplitSegments ==
    /\ pc = "call"
    /\ cli.fn = "split_segments"
    /\ Return(split_segments(Concat(cli.lines)))

CallApplyPatch ==
    /\ pc = "call"
    /\ cli.fn = "apply_patch"
    /\ LET text == TextOfLines(cli.lines, LAMBDA l : l.content,
                               LAMBDA l : l.term)
           old == TextOfLines(cli.lines, LAMBDA l : l.content,
                              LAMBDA l : <<NL>>)
           new == TextOfLines(cli.lines, PatchedContent, LAMBDA l : <<NL>>)
       IN Return(apply_patch_preserving_newlines(text,
              [old |-> IF cli.fits THEN old ELSE old \o <<"q", NL>>,
               new |-> new]))

\* the i-th line build pushes
PushedLine(call, i) ==
    LET len == call.lens[((i - 1) % Len(call.lens)) + 1]
    IN Line(len, len)

\* DiffBuffer::build: the buffer is created, and returned at once when the
\* diff has no line
BuildStart ==
    /\ pc = "call"
    /\ cli.fn = "build"
    /\ cur = <<>>
    /\ pc' = IF cli.n = 0 THEN "return" ELSE "call"
    /\ cur' = DiffBuffer0
    /\ UNCHANGED <<cli, step, cmd, entries, idx, apply_all, stats, hist, fs,
                   undo, change_log>>

\* DiffBuffer::build: one push of its loops; the loops end with the last
\* line of the diff or when push_line returns false
BuildPush ==
    /\ pc = "call"
    /\ cli.fn = "build"
    /\ cur # <<>>
    /\ LET i == Len(cur.lines) + 1
           pushed == push_line(cur, PushedLine(cli, i))
       IN /\ cur' = pushed.buffer
          /\ pc' = IF pushed.more /\ i < cli.n THEN "call" ELSE "return"
    /\ UNCHANGED <<cli, step, cmd, entries, idx, apply_all, stats, hist, fs,
                   undo, change_log>>

CallCollectLineSpans ==
    /\ pc = "call"
    /\ cli.fn = "collect_line_spans"
    /\ \E script \in ShortestScripts(cli.old, cli.new) :
          Return(collect_line_spans(DiffOps(script, 1, 0, 0)))

\* the k-th record appended: each record names another path
LogRecord(k) ==
    [command |-> "cleanup", path |-> backup_candidate(Path("f1"), k),
     action |-> "applied"]

\* one call of record_change; cur lists the records appended so far
CallRecordChange ==
    /\ pc = "call"
    /\ cli.fn = "record_change"
    /\ LET record == LogRecord(Len(cur) + 1)
       IN /\ change_log' = record_change(change_log, record.command,
                                         record.path, record.action)
          /\ cur' = Append(cur, record)
          /\ pc' = IF Len(cur) + 1 < cli.n THEN "call" ELSE "return"
    /\ UNCHANGED <<cli, step, cmd, entries, idx, apply_all, stats, hist, fs,
                   undo>>

CallDecide ==
    /\ pc = "call"
    /\ cli.fn = "decide"
    /\ \E guess \in DetectorGuesses :
          Return(decide(cli.override_encoding, cli.bytes, guess))

\* apply_transform's encode, then EncodingStrategy::decode of the bytes
CallRoundTrip ==
    /\ pc = "call"
    /\ cli.fn = "round_trip"
    /\ \E guess \in DetectorGuesses :
          Return([encoded |-> Encode(cli.text, cli.decision.encoding),
                  decoded |-> strategy_decode(cli.override_encoding,
                                 Encode(cli.text, cli.decision.encoding).bytes,
                                 guess)])

\* the distances among the three strings of the call
CallLevenshtein ==
    /\ pc = "call"
    /\ cli.fn = "levenshtein"
    /\ Return([aa |-> levenshtein(cli.a, cli.a),
               ab |-> levenshtein(cli.a, cli.b),
               ba |-> levenshtein(cli.b, cli.a),
               bc |-> levenshtein(cli.b, cli.c),
               ac |-> levenshtein(cli.a, cli.c)])

TextNext ==
    \/ CallClassifyPaths
    \/ CallRoundTrip
    \/ CallDecide
    \/ CallRecordChange
    \/ CallCollectLineSpans
    \/ BuildStart
    \/ BuildPush
    \/ CallApplyPatch
    \/ CallSplitSegments
    \/ CallApplyReplace
    \/ CallApplyBlock
    \/ CallApplyRename
    \/ CallLevenshtein

TextSpec == TextInit /\ [][TextNext]_vars

\* ================================================================= the loops
\* A third specification: one run of a loop of the program that waits for
\* input or for a condition.  Standard input is a finite sequence of lines
\* followed by end of input; cli is the call, cur the loop's variables, with
\* pos the number of lines read.  The program keeps running: every loop
\* takes its next iteration (weak fairness of the step).
\* Largest number of lines standard input holds.
MaxInput == 3

PAGE_LINES == 200

\* follow_file: Duration::from_millis(750)
FollowMillis == 750

\* the commands parse_pager_command returns
PagerCommands ==
    {[tag |-> t, line |-> 0] : t \in {"Next", "Prev", "Head", "Tail", "Quit",
                                      "Help"}}
    \cup {[tag |-> "GotoLine", line |-> l] : l \in {0, 300}}

\* the commands parse_step_command returns (the search commands, which
\* only move the index, are left out)
StepCommands ==
    {[tag |-> t, target |-> 0] : t \in {"NextLine", "PrevLine", "Head", "Tail",
                                        "SetBookmark", "JumpBookmark", "Quit",
                                        "Help"}}
    \cup {[tag |-> "Jump", target |-> t] : t \in {1, 5}}

LoopCalls ==
    {[fn |-> "follow_file", binary |-> b, input |-> <<>>] : b \in BOOLEAN}
    \cup {[fn |-> "run_internal_pager", lines |-> n, input |-> i] :
            n \in {0, 150, 450}, i \in SeqsUpTo(PagerCommands, MaxInput)}
    \cup {[fn |-> "run_step_mode", lines |-> n, input |-> i] :
            n \in {0, 2}, i \in SeqsUpTo(StepCommands, MaxInput)}
    \cup {[fn |-> "prompt_approval", input |-> i] :
            i \in SeqsUpTo(Inputs \ {"EOF"}, MaxInput)}
    \cup {[fn |-> "create_backup_if_needed", path |-> Path(b), input |-> <<>>] :
            b \in {"f1", "f2"}}
    \cup {[fn |-> "review", entries |-> n, input |-> <<>>] : n \in 0..2}

\* the variables of the loops before the first iteration
LoopVars ==
    [pos |-> 0, polls |-> 0, slept |-> 0, last_snapshot |-> NoneV, page |-> 0,
     index |-> 0, bookmark |-> NoneV, attempt |-> 0, result |-> "none"]

LoopInit ==
    /\ cli \in LoopCalls
    /\ cmd = cli
    /\ pc = "call"
    /\ cur = LoopVars
    /\ step = 0
    /\ entries = <<>>
    /\ idx = 0
    /\ apply_all = FALSE
    /\ stats = CommandStats
    /\ hist = [all_seen |-> FALSE, quit_seen |-> FALSE, pending |-> 0,
               listed |-> 0, fs_in |-> Disk0, undo_in |-> <<>>]
    /\ fs = Disk0
    /\ undo = <<>>
    /\ change_log = <<>>

\* the loop goes on with the variables v
Again(v) ==
    /\ pc' = "call"
    /\ cur' = v
    /\ UNCHANGED <<cli, step, cmd, entries, idx, apply_all, stats, hist, fs,
                   undo, change_log>>

\* io::stdin().read_line: the next line, or nothing at end of input
AtEof == cur.pos = Len(cli.input)
NextLine == cli.input[cur.pos + 1]
Read == [cur EXCEPT !.pos = @ + 1]

\* follow_file on a file flagged binary returns before its loop
FollowSkip ==
    /\ pc = "call"
    /\ cli.fn = "follow_file"
    /\ cli.binary
    /\ Return([cur EXCEPT !.result = "skipped"])

\* follow_file: one iteration of its loop.  The file is read (it may have
\* changed, or be unreadable), rendered when it differs from the last
\* snapshot, and the thread sleeps; the loop has no exit.
FollowPoll ==
    /\ pc = "call"
    /\ cli.fn = "follow_file"
    /\ ~cli.binary
    /\ \E read \in {Err("ReadError"), Ok(TextF1), Ok(TextF2)} :
          Again([cur EXCEPT
                   !.polls = Min(@ + 1, 2),
                   !.slept = FollowMillis,
                   !.last_snapshot = IF read.ok THEN Some(read.value) ELSE @])

\* usize::div_ceil
DivCeil(a, b) == (a + b - 1) \div b

\* run_internal_pager: the check before the loop, and one iteration of it
PagerStep ==
    /\ pc = "call"
    /\ cli.fn = "run_internal_pager"
    /\ LET total_pages == DivCeil(cli.lines, PAGE_LINES)
           c == NextLine
       IN IF cli.lines = 0 THEN Return([cur EXCEPT !.result = "empty"])
          ELSE IF total_pages = 1 THEN Return([cur EXCEPT !.result = "one page"])
          ELSE IF AtEof THEN Return([cur EXCEPT !.result = "stdin closed"])
          ELSE CASE c.tag = "Next" ->
                      IF cur.page + 1 >= total_pages
                         THEN Return([Read EXCEPT !.result = "last page"])
                      ELSE Again([Read EXCEPT !.page = @ + 1])
                 [] c.tag = "Prev" ->
                      Again([Read EXCEPT !.page = IF @ = 0 THEN 0 ELSE @ - 1])
                 [] c.tag = "Head" -> Again([Read EXCEPT !.page = 0])
                 [] c.tag = "Tail" -> Again([Read EXCEPT !.page = total_pages - 1])
                 [] c.tag = "GotoLine" ->
                      IF c.line = 0 THEN Again(Read)
                      ELSE Again([Read EXCEPT !.page =
                                     Min(c.line - 1, cli.lines - 1)
                                         \div PAGE_LINES])
                 [] c.tag = "Quit" -> Return([Read EXCEPT !.result = "quit"])
                 [] c.tag = "Help" -> Again(Read)

\* run_step_mode: the check before the loop, and one iteration of it
StepModeStep ==
    /\ pc = "call"
    /\ cli.fn = "run_step_mode"
    /\ LET c == NextLine
       IN IF cli.lines = 0 THEN Return([cur EXCEPT !.result = "empty"])
          ELSE IF AtEof THEN Return([cur EXCEPT !.result = "stdin closed"])
          ELSE CASE c.tag = "NextLine" ->
                      Again([Read EXCEPT !.index =
                                IF @ + 1 < cli.lines THEN @ + 1 ELSE @])
                 [] c.tag = "PrevLine" ->
                      Again([Read EXCEPT !.index = IF @ > 0 THEN @ - 1 ELSE @])
                 [] c.tag = "Head" -> Again([Read EXCEPT !.index = 0])
                 [] c.tag = "Tail" -> Again([Read EXCEPT !.index = cli.lines - 1])
                 [] c.tag = "Jump" ->
                      Again([Read EXCEPT !.index =
                                IF c.target < cli.lines THEN c.target ELSE @])
                 [] c.tag = "SetBookmark" ->
                      Again([Read EXCEPT !.bookmark = Some(cur.index)])
                 [] c.tag = "JumpBookmark" ->
                      Again([Read EXCEPT !.index =
                                IF cur.bookmark.some THEN cur.bookmark.v ELSE @])
                 [] c.tag = "Help" -> Again(Read)
                 [] c.tag = "Quit" -> Return([Read EXCEPT !.result = "quit"])

\* prompt_approval: one iteration of its loop
PromptStep ==
    /\ pc = "call"
    /\ cli.fn = "prompt_approval"
    /\ LET decision == prompt_approval(IF AtEof THEN "EOF" ELSE NextLine)
           v == IF AtEof THEN cur ELSE Read
       IN IF decision = "Retry" THEN Again(v)
          ELSE Return([v EXCEPT !.result = decision])

\* the candidate is taken, whatever the disk holds
candidate_exists_always(disk, candidate) == TRUE

\* the candidate of the backup-name search is taken
candidate_exists(disk, candidate) == disk[candidate].exists

\* create_backup_if_needed: one iteration of its search for a free name
\* (a directory holds finitely many names: MaxBak + 1 candidates at most)
BackupSearchStep ==
    /\ pc = "call"
    /\ cli.fn = "create_backup_if_needed"
    /\ cur.attempt <= MaxBak
    /\ IF candidate_exists(fs, backup_candidate(cli.path, cur.attempt))
          THEN Again([cur EXCEPT !.attempt = @ + 1])
       ELSE Return([cur EXCEPT !.result = "copied"])

\* review::run: one iteration of its loop over the entries
ReviewStep ==
    /\ pc = "call"
    /\ cli.fn = "review"
    /\ IF cur.index < cli.entries
          THEN Again([cur EXCEPT !.index = @ + 1])
       ELSE Return([cur EXCEPT !.result = "done"])

LoopNext ==
    \/ FollowSkip
    \/ FollowPoll
    \/ PagerStep
    \/ StepModeStep
    \/ PromptStep
    \/ BackupSearchStep
    \/ ReviewStep

LoopSpec == LoopInit /\ [][LoopNext]_vars /\ WF_vars(LoopNext)

\* =================================================================== claims
\* the effective apply flag is false: --apply is not given, or --diff-only
\* is given to replace
DryRunRequested ==
    IF cmd.kind = "cleanup" THEN ~cmd.apply
    ELSE ~cmd.common.apply \/ (cmd.kind = "replace" /\ cmd.diff_only)

\* --yes is given
AutoApplyRequested ==
    IF cmd.kind = "cleanup" THEN cmd.auto_apply ELSE cmd.common.auto_apply

\* the sidecars of path that exist on disk now and did not when the current
\* entry was visited
NewSidecars(path) ==
    {k \in 0..MaxBak : /\ fs[backup_candidate(path, k)].exists
                       /\ ~cur.fs0[backup_candidate(path, k)].exists}

\* the steps of the current entry's write plan
PlanOps == {cur.plan[i] : i \in DOMAIN cur.plan}

\* C1 (as claimed): with the effective apply flag false no target, sidecar
\* or undo artifact is created, modified, renamed or deleted, and when the
\* command has returned every entry with a pending change, the backup files
\* cleanup lists included, has been counted as dry-run.
C1_DryRunCountsEveryPending ==
    DryRunRequested =>
        /\ fs = hist.fs_in
        /\ undo = hist.undo_in
        /\ pc = "done" => stats.dry_run = hist.pending + hist.listed

\* C1 (amended): with the effective apply flag false, also with --yes, the
\* disk and the undo artifacts stay as they were when the handler was
\* entered, nothing is prompted for or written, and replace, block, rename,
\* normalize, apply and write count every entry with a pending change as
\* dry-run; cleanup lists its candidates and returns without counting
\* anything.
C1_DryRunWritesNothing ==
    DryRunRequested =>
        /\ fs = hist.fs_in
        /\ undo = hist.undo_in
        /\ pc \notin {"prompt", "io"}
        /\ cmd.kind # "cleanup" =>
              stats.dry_run = hist.pending /\ stats.applied = 0
        /\ cmd.kind = "cleanup" => stats = CommandStats

C1_Witness ==
    /\ DryRunRequested
    /\ AutoApplyRequested
    /\ cmd.kind # "cleanup"
    /\ pc = "done"
    /\ stats.dry_run = 2

\* C2: in apply mode without --yes, the disk or the undo artifacts change
\* for an entry only after its own prompt returned Apply or ApplyAll (or an
\* earlier ApplyAll approved it); an entry answered Skip leaves the disk and
\* the undo artifacts as they were and is counted as skipped.
C2_WriteOnlyAfterApproval ==
    (~DryRunRequested /\ ~AutoApplyRequested) =>
        /\ (fs # cur.fs0 \/ undo # cur.undo0 \/ pc = "io") =>
              \/ cur.prompted /\ cur.decision \in {"Apply", "ApplyAll"}
              \/ cur.auto /\ hist.all_seen
        /\ cur.decision = "Skip" =>
              /\ fs = cur.fs0
              /\ undo = cur.undo0
              /\ cur.counted = "skipped"

C2_Witness ==
    /\ ~DryRunRequested
    /\ ~AutoApplyRequested
    /\ cur.decision = "Skip"
    /\ stats.applied = 1
    /\ stats.skipped = 1

\* C3: once ApplyAll has been answered in a command, no later entry of that
\* command is prompted for.
C3_ApplyAllSticky == hist.all_seen => pc # "prompt"

\* C4: after a Quit decision no further entry of the command is visited,
\* whatever steps remain: the last entry visited, if the running handler
\* has visited one, is the entry answered Quit.
C4_QuitHaltsCommand ==
    hist.quit_seen => (cur.path = <<>> \/ cur.decision = "Quit")

\* C5: while and after an approved write runs, also when a step of it
\* fails, the destination holds its previous state or the complete new
\* content; the temporary file lies in the destination's directory, and
\* when it is renamed it holds the complete new content and was synced.
C5_AtomicWrite ==
    \A o \in PlanOps :
        o.op = "tmp_write" =>
            LET tmp == temp_path(o.path)
            IN /\ fs[o.path] = cur.fs0[o.path] \/ fs[o.path] = File(o.data)
               /\ tmp[1] = o.path[1]
               /\ tmp # o.path
               /\ (pc = "io" /\ NextOp.op = "tmp_rename"
                      /\ NextOp.path = o.path) =>
                     fs[tmp] = File(o.data) /\ cur.synced

C5_Witness ==
    /\ pc = "failed"
    /\ cur.todo # <<>>
    /\ NextOp.op = "tmp_rename"
    /\ cur.fs0[NextOp.path].exists
    /\ fs[NextOp.path] = cur.fs0[NextOp.path]

\* C6: an applied change whose destination existed creates, with backups
\* enabled, exactly one new sidecar, at the first of .bak, .bak1, .bak2, ...
\* that did not exist, holding the destination's previous content; with
\* backups disabled or no file at the destination it creates none; and no
\* sidecar that existed is changed.
C6_OneFreshSidecar ==
    cmd.kind # "cleanup" =>
        /\ \A n \in Names :
              (is_backup_file(n) /\ cur.fs0[n].exists) => fs[n] = cur.fs0[n]
        /\ cur.counted = "applied" =>
              \A o \in PlanOps :
                  o.op = "backup" =>
                      IF ~cmd.common.no_backup /\ cur.fs0[o.path].exists
                         THEN \E k \in 0..MaxBak :
                                 /\ NewSidecars(o.path) = {k}
                                 /\ \A j \in 0..(k - 1) :
                                       cur.fs0[backup_candidate(o.path, j)].exists
                                 /\ fs[backup_candidate(o.path, k)]
                                       = cur.fs0[o.path]
                         ELSE NewSidecars(o.path) = {}

C6_Witness ==
    /\ cur.counted = "applied"
    /\ cur.path = Path("f2")
    /\ ~cur.fs0[backup_candidate(Path("f2"), 2)].exists
    /\ fs[backup_candidate(Path("f2"), 2)].exists

\* C7 (as claimed): with default options every applied change produces an
\* undo patch, and a backup sidecar when the destination existed.
C7_BackupAndUndoByDefault ==
    (/\ cur.counted = "applied"
     /\ cmd.kind # "cleanup"
     /\ ~cmd.common.no_backup
     /\ ~cmd.common.undo_log.some) =>
        /\ Len(undo) > Len(cur.undo0)
        /\ cur.fs0[cur.path].exists => NewSidecars(cur.path) # {}

\* C7 (amended): backups are opt-out and undo patches are opt-in.  An
\* applied change produces a backup sidecar when the destination existed
\* unless --no-backup is given, and an undo patch (the reverse diff of the
\* change) exactly when an undo-log directory is given.
C7_BackupOptOutUndoOptIn ==
    (cur.counted = "applied" /\ cmd.kind # "cleanup") =>
        /\ (~cmd.common.no_backup /\ cur.fs0[cur.path].exists) =>
              NewSidecars(cur.path) # {}
        /\ cmd.common.no_backup =>
              \A n \in Names : is_backup_file(n) => fs[n] = cur.fs0[n]
        /\ Len(undo) > Len(cur.undo0) <=> cmd.common.undo_log.some
        /\ cmd.common.undo_log.some =>
              \E i \in (Len(cur.undo0) + 1)..Len(undo) :
                  /\ undo[i].path = cur.path
                  /\ undo[i].from = cur.result.v.new_text
                  /\ undo[i].to = cur.result.v.decoded.text

C7_Witness ==
    /\ cur.counted = "applied"
    /\ cmd.kind # "cleanup"
    /\ ~cmd.common.no_backup
    /\ ~cmd.common.undo_log.some
    /\ cur.fs0[cur.path].exists
    /\ NewSidecars(cur.path) # {}
    /\ undo = <<>>

\* C8: an entry flagged binary is not read, transformed, previewed,
\* prompted for or written by replace, block, rename or normalize, whatever
\* --apply and --yes are.
C8_BinaryNeverTouched ==
    cur.binary =>
        /\ ~cur.read
        /\ ~cur.previewed
        /\ ~cur.result.some
        /\ ~cur.prompted
        /\ pc \notin {"prompt", "io"}
        /\ fs = cur.fs0
        /\ undo = cur.undo0

C8_Witness ==
    /\ cur.binary
    /\ cur.counted # "none"
    /\ cmd.kind = "rename"
    /\ ~DryRunRequested
    /\ AutoApplyRequested

\* C9: an entry flagged binary is recorded as skipped by every operation:
\* the skipped counter is incremented and the logged action is "skipped".
C9_BinaryRecordedSkipped ==
    (cur.binary /\ cur.counted # "none") =>
        cur.counted = "skipped" /\ cur.logged = "skipped"

\* C10: a TransformResult produced by replace, block, rename or a patch has
\* a new_text that differs from decoded.text.
C10_ResultDiffers ==
    (cmd.kind \in {"replace", "block", "rename", "apply"} /\ cur.result.some)
        => cur.result.v.new_text # cur.result.v.decoded.text

\* ------------------------------------------------- claims about apply_replace
\* a call of apply_replace has returned
ReplaceReturned == pc = "return" /\ cli.fn = "apply_replace"

\* the number of line feeds before offset off: a match starting at off is on
\* the 1-based line NewlinesBefore(text, off) + 1
NewlinesBefore(text, off) == Cardinality({i \in 1..off : text[i] = NL})

\* the match at offset off starts on a line strictly after after_line
StartsAfterLine(text, after_line, off) ==
    after_line.some => NewlinesBefore(text, off) + 1 > after_line.v

\* the offsets of the pattern's matches that are eligible, in order
EligibleMatches(text, options) ==
    SelectSeq(Matches(text, options.pattern),
              LAMBDA off : StartsAfterLine(text, options.after_line, off))

\* the number of replacements due: min(count, eligible matches)
ReplacementsDue(text, options) ==
    LET e == Len(EligibleMatches(text, options))
    IN IF options.count.some THEN Min(options.count.v, e) ELSE e

\* the text with the matches at `starts` (ascending, each plen long)
\* replaced by rep and everything else copied
RECURSIVE Rebuilt(_, _, _, _, _)
Rebuilt(text, starts, plen, rep, from) ==
    IF starts = <<>> THEN Slice(text, from, Len(text))
    ELSE Slice(text, from, Head(starts)) \o rep
         \o Rebuilt(text, Tail(starts), plen, rep, Head(starts) + plen)

\* the first offset that lies on a line after line n, Len(text) if none
LineEnd(text, n) ==
    LET late == {off \in 0..Len(text) : NewlinesBefore(text, off) >= n}
    IN IF late = {} THEN Len(text)
       ELSE CHOOSE off \in late : \A o \in late : off <= o

\* C11: with after_line = n only matches starting on a line > n are
\* replaced: the lines 1..n of the text are the same in the output; when no
\* occurrence of the pattern starts after line n the result is "no change";
\* and foo -> FOO with after_line = 2 on "alpha\nfoo\nbeta\nfoo\n" gives
\* "alpha\nfoo\nbeta\nFOO\n".
C11_AfterLineFilters ==
    (ReplaceReturned /\ cli.options.after_line.some) =>
        LET text == cli.text
            n == cli.options.after_line.v
            late == {off \in 0..Len(text) :
                        /\ OccursAt(text, cli.options.pattern, off)
                        /\ NewlinesBefore(text, off) + 1 > n}
        IN /\ late = {} => cur = Ok(NoneV)
           /\ (cur.ok /\ cur.value.some) =>
                 /\ late # {}
                 /\ Slice(cur.value.v, 0, LineEnd(text, n))
                       = Slice(text, 0, LineEnd(text, n))
           /\ (text = AlphaFooBetaFoo /\ n = 2 /\ ~cli.options.count.some) =>
                 cur = Ok(Some(<<"a", "l", "p", "h", "a", NL, "f", "o", "o", NL,
                                 "b", "e", "t", "a", NL, "F", "O", "O", NL>>))

C11_Witness ==
    /\ ReplaceReturned
    /\ cli.text = AlphaFooBetaFoo
    /\ cli.options.after_line = Some(2)
    /\ ~cli.options.count.some
    /\ cur.ok
    /\ cur.value.some

\* C12: with count = k exactly the first min(k, e) of the e eligible matches
\* are replaced, in order, and the rest of the text is copied; matches
\* filtered by after_line take none of the count and are not part of the
\* number compared with expect.
C12_CountFirstEligible ==
    ReplaceReturned =>
        LET text == cli.text
            options == cli.options
            due == ReplacementsDue(text, options)
            chosen == SubSeq(EligibleMatches(text, options), 1, due)
        IN IF due = 0 THEN cur = Ok(NoneV)
           ELSE IF options.expect.some /\ options.expect.v # due
              THEN cur = Err("CountMismatch")
           ELSE cur = Ok(Some(Rebuilt(text, chosen, Len(options.pattern),
                                      options.replacement, 0)))

C12_Witness ==
    /\ ReplaceReturned
    /\ cli.options.after_line = Some(1)
    /\ cli.options.count = Some(1)
    /\ cli.options.expect = Some(1)
    /\ Len(Matches(cli.text, cli.options.pattern)) = 3
    /\ Len(EligibleMatches(cli.text, cli.options)) = 2
    /\ cur.ok
    /\ cur.value.some

\* C13: when expect is n and the number of replacements made differs from
\* n, zero replacements included, apply_replace fails with CountMismatch.
C13_ExpectMismatchFails ==
    (/\ ReplaceReturned
     /\ cli.options.expect.some
     /\ ReplacementsDue(cli.text, cli.options) # cli.options.expect.v) =>
        cur = Err("CountMismatch")

\* --------------------------------------------------- claims about apply_block
\* a call of apply_block has returned
BlockReturned == pc = "return" /\ cli.fn = "apply_block"

\* the offsets >= from at which needle occurs in text
Occurrences(text, needle, from) ==
    {off \in from..Len(text) : OccursAt(text, needle, off)}

Least(offsets) == CHOOSE off \in offsets : \A o \in offsets : off <= o

\* the offset just after the first start marker
RegionStart(text, options) ==
    Least(Occurrences(text, options.start_marker, 0))
    + Len(options.start_marker)

\* the offset of the first end marker after the first start marker
RegionEnd(text, options) ==
    Least(Occurrences(text, options.end_marker, RegionStart(text, options)))

\* the text strictly between the two markers
Region(text, options) ==
    Slice(text, RegionStart(text, options), RegionEnd(text, options))

\* why the block operation must fail on the text, "none" if it must not
BlockFailure(text, options) ==
    IF Occurrences(text, options.start_marker, 0) = {}
       THEN "MarkerNotFound"
    ELSE IF Occurrences(text, options.end_marker,
                        RegionStart(text, options)) = {}
       THEN "MarkerNotFound"
    ELSE IF /\ options.mode = "Insert"
            /\ \E i \in DOMAIN Region(text, options) :
                  Region(text, options)[i] \notin {SP, TAB, NL, CR}
       THEN "RegionNotEmpty"
    ELSE "none"

\* C14: apply_block fails exactly when the start marker does not occur
\* (MarkerNotFound), no end marker occurs after the first start marker
\* (MarkerNotFound), or the mode is Insert and the text between the markers
\* is not whitespace-only (RegionNotEmpty); otherwise it returns a new text
\* or "no change".
C14_BlockFailsExactly ==
    BlockReturned =>
        IF BlockFailure(cli.text, cli.options) = "none"
           THEN cur.ok
           ELSE cur = Err(BlockFailure(cli.text, cli.options))

C14_Witness ==
    /\ BlockReturned
    /\ cli.options.mode = "Insert"
    /\ cli.options.end_marker = <<"<">>
    /\ cur = Err("RegionNotEmpty")
    /\ Region(cli.text, cli.options) = <<"x">>

\* C15: apply_block returns "no change" exactly when the rebuilt region
\* (adjust_block_body of the requested body) equals the existing region;
\* otherwise the new text is the old one with the region replaced by the
\* rebuilt region, and differs from the old one.
C15_BlockNoChangeIffSameRegion ==
    (BlockReturned /\ cur.ok) =>
        LET text == cli.text
            from == RegionStart(text, cli.options)
            to == RegionEnd(text, cli.options)
            existing == Slice(text, from, to)
            indent == block_indent(text, from - Len(cli.options.start_marker))
            rebuilt == adjust_block_body(existing, cli.options.body, text,
                                         indent)
        IN /\ cur.value = NoneV <=> rebuilt = existing
           /\ cur.value.some =>
                 /\ cur.value.v = Slice(text, 0, from) \o rebuilt
                                  \o Slice(text, to, Len(text))
                 /\ cur.value.v # text

C15_Witness ==
    /\ BlockReturned
    /\ cur = Ok(NoneV)
    /\ cli.options.body = <<"x">>
    /\ Region(cli.text, cli.options) = <<NL, "x", NL, SP, SP>>

\* -------------------------------------------------- claims about apply_rename
\* a call of apply_rename has returned
RenameReturned == pc = "return" /\ cli.fn = "apply_rename"

\* The case shape of a matched text.  A text without a letter has no shape
\* of its own and counts as Mixed; the first letter of a Capitalized text is
\* its first character.
CaseShape(matched) ==
    LET letters == {i \in DOMAIN matched : matched[i] \in UpperLetters
                                           \/ matched[i] \in LowerLetters}
    IN IF letters = {} THEN "Mixed"
       ELSE IF \A i \in letters : matched[i] \in UpperLetters THEN "ALL-UPPER"
       ELSE IF \A i \in letters : matched[i] \in LowerLetters THEN "all-lower"
       ELSE IF /\ matched[1] \in UpperLetters
               /\ \A i \in DOMAIN matched :
                     i > 1 => matched[i] \notin UpperLetters
          THEN "Capitalized"
       ELSE "Mixed"

\* the replacement rendered in a case shape
InShape(shape, replacement) ==
    CASE shape = "ALL-UPPER" ->
            [i \in DOMAIN replacement |-> ToUpperChar(replacement[i])]
      [] shape = "all-lower" ->
            [i \in DOMAIN replacement |-> ToLowerChar(replacement[i])]
      [] shape = "Capitalized" ->
            [i \in DOMAIN replacement |->
                IF i = 1 THEN ToUpperChar(replacement[i])
                ELSE ToLowerChar(replacement[i])]
      [] OTHER -> replacement

\* the text with each match at `starts` replaced by the replacement in the
\* match's shape
RECURSIVE RenamedInShape(_, _, _, _)
RenamedInShape(text, options, starts, from) ==
    IF starts = <<>> THEN Slice(text, from, Len(text))
    ELSE LET stop == Head(starts) + Len(options.from)
         IN Slice(text, from, Head(starts))
            \o InShape(CaseShape(Slice(text, Head(starts), stop)), options.to)
            \o RenamedInShape(text, options, Tail(starts), stop)

\* C16: with case_aware every match is replaced by the replacement in the
\* match's case shape (upper-cased for an all-upper match, lower-cased for
\* an all-lower one, first character upper and the rest lower for a
\* Capitalized one, untouched for a Mixed one), and foo -> bar with
\* word-boundary on "Foo foo FOO" gives "Bar bar BAR".
C16_RenameKeepsCaseShape ==
    (RenameReturned /\ cli.options.case_aware) =>
        LET ms == RenameMatchesFrom(cli.text, cli.options, 0)
        IN /\ ms # <<>> =>
                 cur = Ok(Some(RenamedInShape(cli.text, cli.options, ms, 0)))
           /\ (cli.text = FooFooFoo /\ cli.options.word_boundary) =>
                 cur = Ok(Some(<<"B", "a", "r", SP, "b", "a", "r", SP,
                                 "B", "A", "R">>))

C16_Witness ==
    /\ RenameReturned
    /\ cli.options.case_aware
    /\ cli.options.to = <<"y", "Z">>
    /\ cli.text = <<"X", "x", "x", "X">>
    /\ cur = Ok(Some(<<"Y", "z", "y", "Z">>))

\* ----------------------------------------------------- claims about patch.rs
\* a call of classify_paths has returned
ClassifyReturned == pc = "return" /\ cli.fn = "classify_paths"

\* two paths name the same file
SamePath(p, q) == PathComponents(p) = PathComponents(q)

\* C17: classify is total.  With the path each label stands for (none for
\* /dev/null and for a label that is empty once stripped), it returns Modify
\* when both paths are present and equal, Rename when both are present and
\* differ, Create when only the new one is present, Delete when only the old
\* one is, each with the stripped paths, and fails only when both are
\* absent; classify(/dev/null, b/new.rs) is Create with new_path new.rs.
C17_ClassifyTotal ==
    ClassifyReturned =>
        LET old == cli.old[2]
            new == cli.new[2]
        IN /\ (~old.some /\ ~new.some) <=> ~cur.ok
           /\ cur.ok =>
                 /\ cur.value.kind =
                       (IF old.some /\ new.some
                           THEN (IF SamePath(old.v, new.v)
                                    THEN "Modify" ELSE "Rename")
                        ELSE IF new.some THEN "Create" ELSE "Delete")
                 /\ cur.value.old_path.some = old.some
                 /\ cur.value.new_path.some = new.some
                 /\ old.some => SamePath(cur.value.old_path.v, old.v)
                 /\ new.some => SamePath(cur.value.new_path.v, new.v)
           /\ (cli.old[1] = DevNull
               /\ cli.new[1] = <<"b", "/", "n", "e", "w", ".", "r", "s">>) =>
                 cur = Ok([kind |-> "Create", old_path |-> NoneV,
                           new_path |-> Some(<<"n", "e", "w", ".", "r", "s">>)])

C17_Witness ==
    /\ ClassifyReturned
    /\ cli.old[1] = <<"\"", "a", "/", "n", "\"">>
    /\ cli.new[1] = <<"a", "/", ".", "/", "n">>
    /\ cur.ok
    /\ cur.value.kind = "Modify"

\* a call of split_segments has returned
SplitReturned == pc = "return" /\ cli.fn = "split_segments"

IsDiffLine(line) == StartsWith(line, <<"d", "i", "f", "f", SP, "-", "-">>)
IsOldHeader(line) == StartsWith(line, <<"-", "-", "-", SP>>)
IsNewHeader(line) == StartsWith(line, <<"+", "+", "+", SP>>)

\* the lines after line i up to the next line that satisfies Boundary
StretchAfter(lines, i, Boundary(_)) ==
    {j \in (i + 1)..Len(lines) :
        \A k \in (i + 1)..j : ~Boundary(lines[k])}

IsBoundary(line) == IsDiffLine(line) \/ IsOldHeader(line)

\* C18: parsing fails with MissingHeader whenever a segment has no
\* `--- ` / `+++ ` header pair: the lines from a `diff --` line up to the
\* next `diff --` line hold no `--- ` line or no `+++ ` line, or the lines
\* from a `--- ` line up to the next `diff --` or `--- ` line hold no `+++ `
\* line.
C18_MissingHeaderFails ==
    SplitReturned =>
        LET lines == cli.lines
        IN /\ \A i \in DOMAIN lines :
                 (/\ IsDiffLine(lines[i])
                  /\ \/ \A j \in StretchAfter(lines, i, IsDiffLine) :
                           ~IsOldHeader(lines[j])
                     \/ \A j \in StretchAfter(lines, i, IsDiffLine) :
                           ~IsNewHeader(lines[j]))
                 => cur = Err("MissingHeader")
           /\ \A i \in DOMAIN lines :
                 (/\ IsOldHeader(lines[i])
                  /\ \A j \in StretchAfter(lines, i, IsBoundary) :
                        ~IsNewHeader(lines[j]))
                 => cur = Err("MissingHeader")

\* a call of apply_patch_preserving_newlines has returned
PatchReturned == pc = "return" /\ cli.fn = "apply_patch"

\* the number of lines of the source that end with the terminator term
LinesEnding(lines, term) ==
    Cardinality({i \in DOMAIN lines : lines[i].term = term})

\* term is the dominant style: more lines end with it than with any other
IsDominant(lines, term) ==
    \A other \in {<<NL>>, <<CR, NL>>, <<CR>>} \ {term} :
        LinesEnding(lines, term) > LinesEnding(lines, other)

\* C19: a patch that applies yields the patched lines, each with the
\* terminator of the source's dominant newline style (CRLF, CR or LF): the
\* patch changing beta to beta2 on "alpha\r\nbeta\r\n" yields
\* "alpha\r\nbeta2\r\n".
C19_DominantStyleRestored ==
    (PatchReturned /\ cli.fits) =>
        \A term \in {<<NL>>, <<CR, NL>>, <<CR>>} :
            IsDominant(cli.lines, term) =>
                cur = Ok(TextOfLines(cli.lines, PatchedContent,
                                     LAMBDA l : term))

\* ------------------------------------------- claims about Create and Delete
\* handle_apply is about to visit the work item `work`
AboutToVisit(work) ==
    /\ pc = "loop"
    /\ cmd.kind = "apply"
    /\ idx < Len(entries)
    /\ work = entries[idx + 1]

\* the hunk of the work item, applied to the current content of its file,
\* yields a text that is not empty
YieldsContent(work) ==
    /\ fs[work.old_path.v].exists
    /\ Utf8Decode(fs[work.old_path.v].bytes).text = work.patch.old
    /\ work.patch.new # <<>>

\* C20: a Delete patch whose hunks, applied to the file's current content,
\* yield a text that is not empty fails with DeleteNotEmpty before any
\* prompt, backup, undo artifact or removal, and the file stays in place
\* unchanged; a Create patch is applied against the empty text: what it
\* yields is its hunks' new side, and no file is read.
C20_DeleteNotEmptyCreateFromEmpty ==
    [][\A work \in {PatchCatalogue[i] : i \in DOMAIN PatchCatalogue} :
        AboutToVisit(work) =>
            /\ (work.kind = "Delete" /\ YieldsContent(work)) =>
                    /\ pc' = "failed"
                    /\ cur'.error = "DeleteNotEmpty"
                    /\ ~cur'.prompted
                    /\ cur'.plan = <<>>
                    /\ fs' = fs
                    /\ undo' = undo
                    /\ change_log' = change_log
            /\ (work.kind = "Create" /\ pc' # "failed"
                                     /\ work.patch.new # <<>>) =>
                    /\ ~cur'.read
                    /\ work.patch.old = <<>>
                    /\ cur'.result.some
                    /\ cur'.result.v.decoded.text = <<>>
                    /\ cur'.result.v.new_text = work.patch.new]_vars

\* a Delete patch that leaves content has failed under --apply, its file
\* still in place
C20_Witness ==
    /\ pc = "failed"
    /\ cmd.kind = "apply"
    /\ ApplyMode(cmd)
    /\ idx < Len(entries)
    /\ entries[idx + 1].kind = "Delete"
    /\ cur.error = "DeleteNotEmpty"
    /\ fs[cur.path].exists
    /\ fs = Disk0

\* -------------------------------------------- claims about patch application
\* the files the work items of the command read or write
PatchTargets ==
    {PatchPath(entries[i]) : i \in DOMAIN entries}
    \cup {PatchSource(entries[i]) : i \in DOMAIN entries}

\* C21: the work items of an apply command being the segments of one patch
\* file, when a segment fails to apply (its hunk does not match exactly) the
\* command returns the error and no target file of the patch file is left
\* modified.
C21_PatchFileAtomic ==
    (pc = "failed" /\ cmd.kind = "apply" /\ cur.error = "ApplyError") =>
        \A path \in PatchTargets : fs[path] = Disk0[path]

\* ------------------------------------------------ claims about the diff buffer
\* a call of DiffBuffer::build has created its buffer
Building == cli.fn = "build" /\ cur # <<>>

\* the sum of the lengths of lines[lo..hi]
RECURSIVE BytesOf(_, _, _)
BytesOf(lines, lo, hi) ==
    IF lo > hi THEN 0
    ELSE IF lo = hi THEN lines[lo].len
    ELSE LET mid == (lo + hi) \div 2
         IN BytesOf(lines, lo, mid) + BytesOf(lines, mid + 1, hi)

\* C22: the rendered diff buffer holds at most 5,000 lines and at most
\* 5 MiB of bytes in total, and no buffered line is longer than 64 KiB; a
\* line that was longer is cut and ends with the "(line truncated)" suffix.
C22_BufferBounded ==
    Building =>
        /\ Len(cur.lines) <= 5000
        /\ BytesOf(cur.lines, 1, Len(cur.lines)) <= 5 * 1024 * 1024
        /\ \A i \in DOMAIN cur.lines :
              /\ cur.lines[i].len <= 64 * 1024
              /\ PushedLine(cli, i).len > 64 * 1024 => cur.lines[i].suffix

\* ------------------------------------------------- claims about line spans
\* a call of collect_line_spans has returned
SpansReturned == pc = "return" /\ cli.fn = "collect_line_spans"

\* C23: the spans returned by collect_line_spans have 1-based inclusive
\* bounds with start <= end, are sorted ascending by start and are pairwise
\* disjoint as [start, end] ranges.
C23_SpansDisjointSorted ==
    SpansReturned =>
        /\ \A i \in DOMAIN cur : 1 <= cur[i].start /\ cur[i].start <= cur[i].end
        /\ \A i, j \in DOMAIN cur :
              i < j => /\ cur[i].start <= cur[j].start
                       /\ cur[i].end < cur[j].start

\* ------------------------------------------------ claims about the change log
\* the last n elements of seq, all of them when seq has fewer
LastOf(seq, n) ==
    IF Len(seq) <= n THEN seq
    ELSE [i \in 1..n |-> seq[Len(seq) - n + i]]

\* C24: after any sequence of record_change calls the change log holds at
\* most 500 records, and they are exactly the most recently appended
\* records, in the order they were appended.
C24_LogKeepsLast500 ==
    cli.fn = "record_change" =>
        /\ Len(change_log) <= 500
        /\ change_log = LastOf(cur, 500)

\* more than 500 records were appended and the oldest ones are gone
C24_Witness ==
    /\ cli.fn = "record_change"
    /\ Len(cur) > 500
    /\ Len(change_log) = 500
    /\ change_log[1] = cur[Len(cur) - 499]

\* ---------------------------------------------- claims about the encoding
\* a call of decide has returned
DecideReturned == pc = "return" /\ cli.fn = "decide"

\* the encoding whose byte-order mark the bytes start with, "" when none
MarkOf(bytes) ==
    IF Len(bytes) >= 3 /\ SubSeq(bytes, 1, 3) = <<239, 187, 191>> THEN "UTF-8"
    ELSE IF Len(bytes) >= 2 /\ SubSeq(bytes, 1, 2) = <<255, 254>>
       THEN "UTF-16LE"
    ELSE IF Len(bytes) >= 2 /\ SubSeq(bytes, 1, 2) = <<254, 255>>
       THEN "UTF-16BE"
    ELSE ""

\* the byte sequences of the calls that are valid UTF-8: sequences of "x",
\* of 0xC3 with one continuation byte (0x80..0xBF) and of 0xEF with two
RECURSIVE ValidUtf8(_)
ValidUtf8(bytes) ==
    \/ bytes = <<>>
    \/ Head(bytes) = 120 /\ ValidUtf8(Tail(bytes))
    \/ /\ Len(bytes) >= 2
       /\ bytes[1] = 195
       /\ bytes[2] \in {169, 187, 191}
       /\ ValidUtf8(SubSeq(bytes, 3, Len(bytes)))
    \/ /\ Len(bytes) >= 3
       /\ bytes[1] = 239
       /\ bytes[2] \in {169, 187, 191}
       /\ bytes[3] \in {169, 187, 191}
       /\ ValidUtf8(SubSeq(bytes, 4, Len(bytes)))

RoundTripReturned == pc = "return" /\ cli.fn = "round_trip"

\* C26: for all non-lossy inputs decode(encode(text)) = text: a text written
\* with the encoding decided for a file (by override, byte-order mark,
\* assumed UTF-8 or detector) without an encoding error, and read back with
\* the same strategy, gives the same text.
C26_RoundTrip ==
    (RoundTripReturned /\ ~cur.encoded.had_errors) =>
        cur.decoded.text = cli.text

SingleWrite ==
    /\ pc = "io"
    /\ \/ cmd.kind \in {"replace", "block", "rename", "normalize", "write"}
       \/ /\ cmd.kind = "apply"
          /\ entries[idx + 1].kind \in {"Modify", "Create"}

\* the undo artifact of the visit is written, if one is configured
UndoWritten ==
    cmd.common.undo_log.some => Len(undo) = Len(cur.undo0) + 1

\* the backup sidecar of the visit is copied, if backups are enabled and
\* the destination existed
BackupCopied ==
    (~cmd.common.no_backup /\ cur.fs0[cur.path].exists) =>
        \E i \in 0..MaxBak :
            /\ ~cur.fs0[backup_candidate(cur.path, i)].exists
            /\ fs[backup_candidate(cur.path, i)] = cur.fs0[cur.path]

\* C28: the steps of an applied write happen in this order, each only after
\* the previous one succeeded: undo artifact (if configured), backup sidecar
\* (if enabled and the destination exists), temporary file written and
\* synced, rename over the destination, and only then the applied counter
\* and the change-log record; after a failed step nothing follows.
C28_WriteStepsInOrder ==
    [][/\ pc = "failed" => FALSE
       /\ SingleWrite =>
            LET tmp == temp_path(cur.path)
            IN /\ undo' # undo =>
                    /\ fs = cur.fs0
                    /\ stats' = stats
               /\ (\E i \in 0..MaxBak :
                       fs'[backup_candidate(cur.path, i)]
                           # fs[backup_candidate(cur.path, i)]) =>
                    /\ UndoWritten
                    /\ ~fs[tmp].exists
                    /\ fs[cur.path] = cur.fs0[cur.path]
               /\ (~fs[tmp].exists /\ fs'[tmp].exists) =>
                    /\ UndoWritten
                    /\ BackupCopied
                    /\ fs[cur.path] = cur.fs0[cur.path]
               /\ (fs'[cur.path] # fs[cur.path]) =>
                    /\ UndoWritten
                    /\ BackupCopied
                    /\ cur.synced
                    /\ fs'[cur.path] = fs[tmp]
                    /\ stats' = stats
                    /\ change_log' = change_log
               /\ (stats'.applied # stats.applied \/ change_log' # change_log) =>
                    /\ UndoWritten
                    /\ BackupCopied
                    /\ ~fs[tmp].exists
                    /\ \E o \in PlanOps :
                          o.op = "tmp_write" /\ fs[cur.path] = File(o.data)
                    /\ stats'.applied = stats.applied + 1
                    /\ Len(change_log') = Len(change_log) + 1]_vars

\* an applied write with an undo artifact and a backup sidecar is counted
C28_Witness ==
    /\ cmd.kind = "replace"
    /\ cur.counted = "applied"
    /\ stats.applied = 1
    /\ Len(undo) = 1
    /\ cur.fs0[cur.path].exists
    /\ ~cmd.common.no_backup
    /\ fs[cur.path] # cur.fs0[cur.path]

\* ---------------------------------------------------- claims about renames
\* an approved Rename work item is being written, or its write has failed
RenameApproved ==
    /\ cmd.kind = "apply"
    /\ pc \in {"io", "failed"}
    /\ idx < Len(entries)
    /\ entries[idx + 1].kind = "Rename"
    /\ Approves(cur.decision)

\* the file the new path holds once the patched content is written there
PatchedFile ==
    File(Encode(cur.result.v.new_text, cur.result.v.decoded.encoding).bytes)

\* the old path holds the file as it was, or the new path the patched content
OneHoldsContent(disk, work) ==
    \/ disk[PatchSource(work)] = cur.fs0[PatchSource(work)]
    \/ disk[PatchPath(work)] = PatchedFile

\* C29: for an approved Rename work item the old path changes only once the
\* new path holds the patched content, and before and after every step of
\* the write, a failing step included, the old path holds the file as it was
\* or the new path holds the patched content.
C29_RenameKeepsContent ==
    [][RenameApproved =>
          LET work == entries[idx + 1]
          IN /\ OneHoldsContent(fs, work)
             /\ OneHoldsContent(fs', work)
             /\ fs'[PatchSource(work)] # fs[PatchSource(work)] =>
                   /\ fs[PatchPath(work)] = PatchedFile
                   /\ fs'[PatchPath(work)] = PatchedFile]_vars

\* a Rename that changes the content was applied: the new path holds the
\* patched content and the old path is gone
C29_Witness ==
    /\ cmd.kind = "apply"
    /\ pc = "loop"
    /\ idx > 0
    /\ cur.counted = "applied"
    /\ entries[idx].kind = "Rename"
    /\ cur.result.v.new_text # cur.result.v.decoded.text
    /\ fs[PatchPath(entries[idx])] = PatchedFile
    /\ ~fs[PatchSource(entries[idx])].exists
    /\ cur.fs0[PatchSource(entries[idx])].exists

\* ------------------------------------------------ claims about patch files
\* a segment that is malformed, lacks a header, or has both labels absent
BrokenSegment(segment) ==
    \/ ~segment.body.some
    \/ ~segment.old_label.some
    \/ ~segment.new_label.some
    \/ segment.old_label.v = DevNull /\ segment.new_label.v = DevNull

\* the patch file has a segment that does not parse
HasParseError(file) == \E k \in DOMAIN file : BrokenSegment(file[k])

RECURSIVE SegmentCount(_)
SegmentCount(patch_files) ==
    IF patch_files = <<>> THEN 0
    ELSE Len(Head(patch_files)) + SegmentCount(Tail(patch_files))

\* C30: once an apply command is past its prologue, either every segment of
\* every patch file has become a work item, or some patch file has a parse
\* error and the command has failed with no work item, no target file read,
\* and the disk, the undo directory and the change log as they were.
C30_ParseBeforeTouch ==
    (cmd.kind = "apply" /\ pc # "start") =>
        IF \E k \in DOMAIN cmd.patch_files : HasParseError(cmd.patch_files[k])
           THEN /\ pc = "failed"
                /\ entries = <<>>
                /\ ~cur.read
                /\ fs = Disk0
                /\ undo = <<>>
                /\ change_log = <<>>
           ELSE /\ Len(entries) = SegmentCount(cmd.patch_files)
                /\ \A i \in DOMAIN entries :
                      entries[i].kind \in {"Modify", "Create", "Delete",
                                           "Rename"}

\* an apply command approving everything has failed on the parse error of its
\* second patch file, the first one holding a segment that would apply
C30_Witness ==
    /\ cmd.kind = "apply"
    /\ pc = "failed"
    /\ cmd.common.apply
    /\ cmd.common.auto_apply
    /\ Len(cmd.patch_files) = 2
    /\ ~HasParseError(cmd.patch_files[1])
    /\ ~cmd.patch_files[2][2].body.some
    /\ cur.error = "ParsePatch"
    /\ fs = Disk0

\* --------------------------------------------- claims about the end of input
\* C31: an entry whose prompt met the end of standard input is not written:
\* the disk and the undo directory stay as they were when the entry was
\* visited, and the entry is not counted as applied.
C31_EofDoesNotApprove ==
    (cur.prompted /\ cur.eof) =>
        /\ cur.counted # "applied"
        /\ fs = cur.fs0
        /\ undo = cur.undo0

\* ------------------------------------------ claims about existing targets
\* the entry about to be visited would put a file where one exists already:
\* a Create or Rename patch whose new path exists, a write to an existing
\* path without --allow-overwrite
OverwritesExisting ==
    /\ pc = "loop"
    /\ idx < Len(entries)
    /\ \/ /\ cmd.kind = "apply"
          /\ entries[idx + 1].kind \in {"Create", "Rename"}
          /\ fs[entries[idx + 1].new_path.v].exists
       \/ /\ cmd.kind = "write"
          /\ fs[cmd.path].exists
          /\ ~cmd.allow_overwrite

\* C32: the visit of such an entry fails without a prompt, and the disk, the
\* undo directory, the counters and the change log are left as they were.
C32_ExistingNotOverwritten ==
    [][OverwritesExisting =>
          /\ pc' = "failed"
          /\ ~cur'.prompted
          /\ cur'.decision = "none"
          /\ fs' = fs
          /\ undo' = undo
          /\ stats' = stats
          /\ change_log' = change_log]_vars

\* an apply command in apply mode was refused the Rename onto an existing
\* file, which still holds its bytes
C32_Witness ==
    /\ pc = "failed"
    /\ cmd.kind = "apply"
    /\ cmd.common.apply
    /\ idx < Len(entries)
    /\ entries[idx + 1].kind = "Rename"
    /\ cur.error = "AlreadyExists"
    /\ fs[entries[idx + 1].new_path.v].exists
    /\ fs = cur.fs0

\* ------------------------------------------------ claims about the counters
\* the sum of the four counters of the running handler
Counted == stats.applied + stats.skipped + stats.dry_run + stats.no_op

\* the handler is one of replace, block, rename, normalize, apply
CountingHandler ==
    /\ cmd.kind \in {"replace", "block", "rename", "normalize", "apply"}
    /\ pc \in {"loop", "break"}

\* C33: at every turn of the loop of a replace, block, rename, normalize or
\* apply handler, and so when it finishes, the four counters add up to the
\* number of entries visited; after a Quit the entry that was answered is the
\* last one visited and was counted as skipped; without apply mode applied
\* stays 0.
C33_CountersAddUp ==
    CountingHandler =>
        /\ pc = "loop" => Counted = idx
        /\ pc = "break" => /\ Counted = idx + 1
                           /\ cur.counted = "skipped"
        /\ ~ApplyMode(cmd) => stats.applied = 0

\* a handler has finished over two entries, one of them unchanged and the
\* other applied
C33_Witness ==
    /\ CountingHandler
    /\ pc = "loop"
    /\ idx = Len(entries)
    /\ idx = 2
    /\ stats.no_op = 1
    /\ stats.applied = 1

\* ------------------------------------------- claims about the temporary file
\* C34: whenever no write is under way (write_via_temp has returned, with
\* success or with an error), no temporary file exists in any directory.
C34_NoTempLeftBehind ==
    pc # "io" => \A d \in Dirs : ~fs[<<d, ".safeedit-tmp", "tmp", 0>>].exists

\* ------------------------------------------- claims about the block's frame
\* a call of apply_block has returned a new text
BlockChanged == BlockReturned /\ cur.ok /\ cur.value.some

\* the last n characters of text
Last(text, n) == Slice(text, Len(text) - n, Len(text))

\* C35: in the text apply_block returns, everything up to and including the
\* first start marker and everything from the end marker that follows it to
\* the end of the document is as in the input, the two parts not overlapping;
\* body "\ny\n" on "<\nx\n>" gives "<\ny\n>".
C35_BlockFrameKept ==
    /\ BlockChanged =>
          LET text == cli.text
              from == RegionStart(text, cli.options)
              tail == Len(text) - RegionEnd(text, cli.options)
              new_text == cur.value.v
          IN /\ Len(new_text) >= from + tail
             /\ Slice(new_text, 0, from) = Slice(text, 0, from)
             /\ Last(new_text, tail) = Last(text, tail)
    /\ (/\ BlockReturned
        /\ cli.text = <<"<", NL, "x", NL, ">">>
        /\ cli.options.end_marker = <<">">>
        /\ cli.options.mode = "Replace"
        /\ cli.options.body = <<NL, "y", NL>>) =>
             cur = Ok(Some(<<"<", NL, "y", NL, ">">>))

\* the block between indented markers, with text before and after them, was
\* replaced
C35_Witness ==
    /\ BlockChanged
    /\ cli.text = <<TAB, "<", NL, TAB, "x", NL, TAB, ">", NL>>
    /\ cli.options.end_marker = <<">">>
    /\ cli.options.body = <<"y", NL>>
    /\ cur.value.v = <<TAB, "<", NL, TAB, "y", NL, TAB, ">", NL>>

\* ------------------------------------------- claims about the block's shape
StartsWithLineBreak(text) ==
    /\ text # <<>>
    /\ \/ text[1] = NL
       \/ Len(text) >= 2 /\ text[1] = CR /\ text[2] = NL

EndsWithLineBreak(text) == text # <<>> /\ text[Len(text)] = NL

\* the region between the markers once apply_block has returned without
\* error: the existing one when there is no change
RebuiltRegion ==
    IF cur.value.some
       THEN Slice(cur.value.v, RegionStart(cli.text, cli.options),
                  Len(cur.value.v)
                  - (Len(cli.text) - RegionEnd(cli.text, cli.options)))
       ELSE Region(cli.text, cli.options)

\* C36: when apply_block returns without error, the region between the
\* markers starts with a line break if the existing region did, and ends
\* with a line break if the existing region did, whatever the body; body "y"
\* on "<\nx\n>\n" gives "<\ny\n>\n".
C36_BlockShapeKept ==
    /\ (BlockReturned /\ cur.ok) =>
          /\ StartsWithLineBreak(Region(cli.text, cli.options)) =>
                StartsWithLineBreak(RebuiltRegion)
          /\ EndsWithLineBreak(Region(cli.text, cli.options)) =>
                EndsWithLineBreak(RebuiltRegion)
    /\ (/\ BlockReturned
        /\ cli.text = <<"<", NL, "x", NL, ">", NL>>
        /\ cli.options.end_marker = <<">">>
        /\ cli.options.mode = "Replace"
        /\ cli.options.body = <<"y">>) =>
             cur = Ok(Some(<<"<", NL, "y", NL, ">", NL>>))

\* a body without line breaks replaced a region that starts and ends with one
C36_Witness ==
    /\ BlockChanged
    /\ cli.options.body = <<"y">>
    /\ Region(cli.text, cli.options) = <<NL, "x", NL>>
    /\ RebuiltRegion = <<NL, "y", NL>>

\* ----------------------------------------- claims about the diff's warnings
\* the caps the buffer has reached
CapsHit(buffer) ==
    (IF Len(buffer.lines) >= DIFF_MAX_LINES THEN {"LineCount"} ELSE {})
    \cup (IF BytesOf(buffer.lines, 1, Len(buffer.lines)) >= DIFF_MAX_BYTES
             THEN {"ByteCount"} ELSE {})

\* the warnings of that kind among those printed for the buffer
WarningsOf(buffer, kind) ==
    SelectSeq(print_warnings(buffer), LAMBDA w : w.kind = kind)

\* the number of lines of the buffer that were cut
CutLines(buffer) ==
    Cardinality({i \in DOMAIN buffer.lines : buffer.lines[i].suffix})

\* C37: DiffBuffer::build goes on pushing only while no cap is reached; for
\* the buffer it returns, exactly one cap warning is printed when a cap was
\* reached, naming a cap that was, and none otherwise; one note with the
\* number of cut lines is printed when there are any, and none otherwise.
C37_CapStopsAndWarnsOnce ==
    Building =>
        /\ pc = "call" => CapsHit(cur) = {}
        /\ pc = "return" =>
              /\ IF CapsHit(cur) = {}
                    THEN WarningsOf(cur, "truncated") = <<>>
                    ELSE /\ Len(WarningsOf(cur, "truncated")) = 1
                         /\ WarningsOf(cur, "truncated")[1].cap \in CapsHit(cur)
              /\ IF CutLines(cur) = 0
                    THEN WarningsOf(cur, "long_lines") = <<>>
                    ELSE WarningsOf(cur, "long_lines")
                         = <<Warning("long_lines", "none", CutLines(cur))>>

\* a diff of long lines stopped at the byte cap before its last line, and
\* both the cap warning and the note are printed
C37_Witness ==
    /\ Building
    /\ pc = "return"
    /\ Len(cur.lines) < cli.n
    /\ CapsHit(cur) = {"ByteCount"}
    /\ CutLines(cur) > 0
    /\ Len(print_warnings(cur)) = 2

\* ------------------------------------------ claims about the spans' origin
\* the ops of a diff that are not Equal, in order
ChangingOps(script) ==
    SelectSeq(DiffOps(script, 1, 0, 0), LAMBDA op : op.tag # "Equal")

\* the span the claim gives an op: Added over the new-side lines of an
\* Insert, Modified over the old-side lines of a Delete or Replace
SpanOfOp(op) ==
    IF op.tag = "Insert"
       THEN LineSpan("Added", op.new_range.start + 1, op.new_range.end)
       ELSE LineSpan("Modified", op.old_range.start + 1, op.old_range.end)

\* C38: the spans collect_line_spans returns are, for some diff of the two
\* texts, the spans of its Delete, Replace and Insert ops, one per op and in
\* their order, Equal ops giving nothing; for old "one\nold\nthree\n" and new
\* "one\nnew\nthree\nextra\n" they are Modified 2-2 and Added 4-4.
C38_SpansFromOps ==
    SpansReturned =>
        /\ \E script \in ShortestScripts(cli.old, cli.new) :
              /\ Len(cur) = Len(ChangingOps(script))
              /\ \A k \in DOMAIN cur : cur[k] = SpanOfOp(ChangingOps(script)[k])
        /\ cli.old = <<"one", "old", "three">> =>
              cur = <<LineSpan("Modified", 2, 2), LineSpan("Added", 4, 4)>>

\* the spans of the example were returned
C38_Witness ==
    /\ SpansReturned
    /\ cli.old = <<"one", "old", "three">>
    /\ cli.new = <<"one", "new", "three", "extra">>
    /\ cur = <<LineSpan("Modified", 2, 2), LineSpan("Added", 4, 4)>>

\* ------------------------------------------ claims about the segments found
\* The `--- ` lines that are headers: those that are not the deleted line of
\* a hunk.  old_left and new_left are the deleted and added lines the open
\* hunk still has to come.
RECURSIVE HeaderStarts(_, _, _, _)
HeaderStarts(lines, i, old_left, new_left) ==
    IF i > Len(lines) THEN <<>>
    ELSE IF old_left > 0 /\ lines[i][1] = "-"
       THEN HeaderStarts(lines, i + 1, old_left - 1, new_left)
    ELSE IF new_left > 0 /\ lines[i][1] = "+"
       THEN HeaderStarts(lines, i + 1, old_left, new_left - 1)
    ELSE IF lines[i] = HunkOneOne THEN HeaderStarts(lines, i + 1, 1, 1)
    ELSE IF IsOldHeader(lines[i])
       THEN <<i>> \o HeaderStarts(lines, i + 1, 0, 0)
    ELSE HeaderStarts(lines, i + 1, 0, 0)

\* the label of a header line: what follows its four-character prefix
HeaderLabel(line) == Trim(ReplaceChar(Slice(line, 4, Len(line)), CR, <<>>))

\* the first `+++ ` line after the header line i and before the next
\* `diff --` or `--- ` line, 0 when there is none
NewHeaderAfter(lines, i) ==
    IF \E j \in StretchAfter(lines, i, IsBoundary) : IsNewHeader(lines[j])
       THEN CHOOSE j \in StretchAfter(lines, i, IsBoundary) :
               /\ IsNewHeader(lines[j])
               /\ \A k \in (i + 1)..(j - 1) : ~IsNewHeader(lines[k])
       ELSE 0

\* C39: when split_segments returns segments, there is one per file header
\* pair (a `--- ` header line and the `+++ ` line that follows it), in input
\* order, with the labels of that pair's lines; its body is the lines from
\* the header up to the next `diff --` or `--- ` line, so no body contains a
\* `diff --` line or a line that stands between one and the next header.
C39_SegmentPerHeaderPair ==
    (SplitReturned /\ cur.ok) =>
        LET starts == HeaderStarts(cli.lines, 1, 0, 0)
        IN /\ Len(cur.value) = Len(starts)
           /\ \A k \in DOMAIN cur.value :
                 k <= Len(starts) =>
                    /\ cur.value[k].old_label
                       = HeaderLabel(cli.lines[starts[k]])
                    /\ NewHeaderAfter(cli.lines, starts[k]) # 0
                    /\ cur.value[k].new_label
                       = HeaderLabel(
                            cli.lines[NewHeaderAfter(cli.lines, starts[k])])
           /\ \A k \in DOMAIN cur.value :
                 ~Contains(cur.value[k].body, DiffPrefix)
           /\ \A k \in DOMAIN cur.value :
                 k <= Len(starts) =>
                    cur.value[k].body
                    = ReplaceChar(
                         Concat([j \in 1..(1 + Cardinality(
                                    StretchAfter(cli.lines, starts[k],
                                                 IsBoundary)))
                                   |-> cli.lines[starts[k] + j - 1]]),
                         CR, <<>>)

\* --------------------------------------------- claims about the edit distance
LevReturned == pc = "return" /\ cli.fn = "levenshtein"

\* C40: levenshtein is a metric over code points: the distance of a string
\* to itself is 0, the distance of a to b is the distance of b to a, and the
\* distance of a to c is at most the distance of a to b plus that of b to c.
C40_LevenshteinIsMetric ==
    LevReturned =>
        /\ cur.aa = 0
        /\ cur.ab = cur.ba
        /\ cur.ac <= cur.ab + cur.bc

\* three different strings, one holding a code point outside ASCII, at
\* distances 2 (a to b), 1 (b to c) and 2 (a to c)
C40_Witness ==
    /\ LevReturned
    /\ cli.a = <<"a", ZWSP>>
    /\ cli.b = <<"b">>
    /\ cli.c = <<"b", "a">>
    /\ cur.ab = 2
    /\ cur.bc = 1
    /\ cur.ac = 2

====
